---- MODULE Spec2Model ----
(***************************************************************************)
(* Change-capture-to-fanout pipeline of the order service.                 *)
(*                                                                         *)
(*   ChangeStreamService  (backend/src/services/changeStreamService.js,    *)
(*                         src/unnamed/part_003)                           *)
(*   WebSocketService     (src/unnamed/part_002, lines 392-675)            *)
(*   EmailService         (src/unnamed/part_002, lines 1-390)              *)
(*                                                                         *)
(* JavaScript runs every callback to its first `await` without             *)
(* interruption.  One action of this module is one such run: the           *)
(* synchronous part of a handler up to the point where it suspends, or a   *)
(* continuation.  The continuation of an `await` on a promise that is      *)
(* already settled is a promise job: the jobs of a turn of the event loop  *)
(* run in the order they were queued, before the next timer, I/O or socket *)
(* callback.                                                               *)
(***************************************************************************)
EXTENDS Integers, Sequences, FiniteSets, TLC

\* ------------------------------------------------------------ constants
\* ChangeStreamService.constructor
maxRetries == 5
retryDelay == 5000
\* ChangeStreamService.restart: setTimeout(resolve, 1000)
restartDelay == 1000

\* ------------------------------------------------------------ bounds
\* feed events (mutations of the orders collection) in one run
MaxEvents == 1
\* feed subscriptions (successful collection.watch() calls) in one run
MaxStreams == 2
\* API calls (start, stop, restart, resetRetryCount) in one run of Spec
MaxCalls == 2
\* injected failures (watch() throwing, 'error' events) in one run of Spec
MaxFaults == 2
\* injected failures in one run of SpecServer: six exhaust the retry budget
MaxServerFaults == 6
\* feed events in one run of SpecServer
MaxServerEvents == 1
\* feed events in one run of SpecFeed
MaxFeedEvents == 3
\* feed events in one run of SpecChange
MaxChangeEvents == 1
\* socket.io connections in one run of SpecSocket
MaxClients == 2
\* subscribe-order / unsubscribe-order / request-stats commands in one run
MaxCommands == 2
\* feed events in one run of SpecSocket
MaxSocketEvents == 1
\* SIGINT / SIGTERM signals the process handles with a service constructed
MaxSignals == 2
\* failures of the feed in one run of SpecShutdown
MaxShutdownFaults == 1
\* runs of the hook's mount effect, and reconnect() calls, in one run
MaxMounts == 2
MaxReconnects == 3

VARIABLES
    changeStream,   \* this.changeStream: 0 is null, else the stream's number
    isRunning,      \* this.isRunning
    retryCount,     \* this.retryCount
    mongoReady,     \* mongoose.connection.readyState === 1
    streams,        \* every subscription watch() returned: [st, from, pos]
    feed,           \* the mutations of the collection so far, in order
    tasks,          \* handleChange invocations suspended at an await
    timers,         \* pending setTimeout callbacks: [kind, left, k]
    waiters,        \* handleError/stop/restart suspended on changeStream.close():
                    \* [kind, s, by], by the caller a handleError returns to
    startWaiting,   \* start() calls suspended on the "connected" signal
    emitted,        \* every io.emit / io.to(room).emit so far, in order
    notified,       \* every EmailService.sendXEmail call so far, in order
    sent,           \* every sendEmail call that has settled: [src, outcome]
    statsCalls,     \* the changes broadcastStats() was called for, in order
    handled,        \* per stream: feed positions handleChange was invoked with
    calls,          \* API calls made so far: [start, stop, other]
    faults,         \* failures injected so far
    streak,         \* retries since the last successful open: [k, fired, elapsed]
    attempt,        \* the latest resubscribe attempt a retry timer made:
                    \* [k, n, at, total]
    sockets,        \* the ids of the sockets connected to the io server
    connectedClients, \* the keys of WebSocketService.connectedClients
    rooms,          \* per socket id: the orders whose room it has joined
    statsRequests,  \* per socket id: its sendStatsToClient() calls awaiting
                    \* their queries
    received,       \* per socket id: the messages sent to it, in order
    transporter,    \* EmailService.transporter is set (not null)
    isConfigured,   \* EmailService.isConfigured
    verifying,      \* verifyConnection() is awaiting transporter.verify()
    mailed,         \* every transporter.sendMail call so far, in order
    returned,       \* the start() calls settled so far: [resolved, rejected]
    dead,           \* connected sockets whose transport has failed: what is
                    \* sent to them is lost
    ioClosed,       \* WebSocketService.close() has closed the io server
    ioThrows,       \* io.emit throws when handleError broadcasts service-error
    commands,       \* the subscribe-order / unsubscribe-order / request-stats
                    \* commands handled so far
    hook,           \* one useWebSocket hook instance in a browser: its refs
                    \* and the sockets, interval and timeout it has created
    micro           \* the promise jobs of the current event-loop turn:
                    \* [run, s, queue]; run is the kind of the synchronous
                    \* run that queued them, queue the jobs in FIFO order

vars == <<changeStream, isRunning, retryCount, mongoReady, streams, feed, tasks,
          timers, waiters, startWaiting, emitted, notified, sent, statsCalls,
          handled, calls, faults, streak, attempt, sockets, connectedClients,
          rooms, statsRequests, received, transporter, isConfigured,
          verifying, mailed, returned, dead, ioClosed, ioThrows, commands,
          hook, micro>>

\* ------------------------------------------------------------ records
\* OrderSchema.status: enum values
Statuses == {"pending", "shipped", "delivered"}

\* a missing document (null / undefined)
NoDoc == [present |-> FALSE, id |-> 0, status |-> "", email |-> FALSE,
          customer_name |-> ""]

Order(id, status, email) ==
    [present |-> TRUE, id |-> id, status |-> status, email |-> email,
     customer_name |-> "customer"]

\* documentKey 0: the event has no documentKey (as drop, rename, dropDatabase
\* and invalidate events come from the driver), else the _id in it
Change(op, id, doc, prev) ==
    [operationType |-> op, documentKey |-> id, fullDocument |-> doc,
     fullDocumentBeforeChange |-> prev]

Operations == {"insert", "update", "delete", "replace", "drop"}

Documents(id) ==
    {NoDoc} \cup {Order(id, status, email) : status \in Statuses, email \in BOOLEAN}

\* the documentKey an event about order id can carry: an event about a
\* document (insert, update, delete, replace) always has one, one of another
\* operation type has none as the driver delivers it
Keys(op, id) ==
    IF op \in {"insert", "update", "delete", "replace"} THEN {id} ELSE {0, id}

\* Every change event about order 1: any operation type, with or without
\* either document.
Changes ==
    UNION { { Change(op, key, doc, prev) :
                key \in Keys(op, 1), doc \in Documents(1), prev \in Documents(1) } :
            op \in Operations }

\* The change events the feed delivers in the lifecycle specifications.
FeedChanges ==
    { Change("insert", 1, Order(1, "pending", TRUE), NoDoc),
      Change("update", 1, Order(1, "delivered", TRUE), Order(1, "pending", TRUE)),
      Change("delete", 2, NoDoc, NoDoc),
      Change("drop", 0, NoDoc, NoDoc),
      Change("drop", 2, NoDoc, NoDoc) }

\* The change events the feed delivers while clients come and go: one about
\* each order a client can subscribe to, neither with an email to send.
SocketChanges ==
    { Change("update", 1, Order(1, "shipped", FALSE), Order(1, "pending", FALSE)),
      Change("delete", 2, NoDoc, NoDoc) }

\* ------------------------------------------------------------ WebSocketService
\* room 0 is io.emit (every connected socket); room id is io.to(`order-${id}`)
broadcastOrderCreated(order, src) ==
    << [event |-> "order-created", room |-> 0, type |-> "order-created",
        data |-> order, src |-> src],
       [event |-> "order-update", room |-> order.id, type |-> "order-created",
        data |-> order, src |-> src] >>

broadcastOrderUpdated(order, previousData, src) ==
    << [event |-> "order-updated", room |-> 0, type |-> "order-updated",
        data |-> order, previous_data |-> previousData, src |-> src],
       [event |-> "order-update", room |-> order.id, type |-> "order-updated",
        data |-> order, previous_data |-> previousData, src |-> src] >>

broadcastOrderDeleted(order, src) ==
    << [event |-> "order-deleted", room |-> 0, type |-> "order-deleted",
        data |-> order, src |-> src],
       [event |-> "order-update", room |-> order.id, type |-> "order-deleted",
        data |-> order, src |-> src] >>

broadcastCustomMessage(event, data, src) ==
    << [event |-> event, room |-> 0, data |-> data, src |-> src] >>

\* the io.emit at the end of broadcastStats, once both queries have resolved
broadcastStats(src) ==
    << [event |-> "order-stats", room |-> 0, src |-> src] >>

\* ------------------------------------------------------------ ChangeStreamService: one change
\* What a handler does before it first suspends: the messages it emits (out),
\* the EmailService call it makes (mail), and where it goes next (at):
\*   "email"  suspended on the awaited EmailService call
\*   "stats"  handler returned; handleChange goes on to broadcastStats()
\*   "thrown" handler threw and handleChange's catch logs it, or handleChange
\*            itself threw before its try: broadcastStats() is skipped
Step(out, mail, at) == [out |-> out, mail |-> mail, at |-> at]

\* a status test that compares the statuses without testing that there is a
\* previous snapshot
statusChangedNoSnapshotTest(document, previousDocument) ==
    previousDocument.status # document.status

\* a status test that takes every update with a prior snapshot as a change
statusChangedAnyUpdate(document, previousDocument) == previousDocument.present

\* handleUpdate, lines 136-137
statusChanged(document, previousDocument) ==
    previousDocument.present /\ previousDocument.status # document.status

\* handleUpdate, lines 153-165: the order-delivered milestone
delivered(document, previousDocument, src) ==
    IF statusChanged(document, previousDocument) /\ document.status = "delivered"
    THEN broadcastCustomMessage("order-delivered",
             [orderId |-> document.id, customer_name |-> document.customer_name],
             src)
    ELSE << >>

\* a handleInsert that sends the created email without testing document.email
handleInsertNoAddressCheck(document, src) ==
    IF ~document.present
    THEN Step(<< >>, << >>, "thrown")
    ELSE Step(broadcastOrderCreated(document, src),
              << [kind |-> "created", order |-> document, src |-> src] >>,
              "email")

handleInsert(document, src) ==
    IF ~document.present
    THEN Step(<< >>, << >>, "thrown")
    ELSE IF document.email
         THEN Step(broadcastOrderCreated(document, src),
                   << [kind |-> "created", order |-> document, src |-> src] >>,
                   "email")
         ELSE Step(broadcastOrderCreated(document, src), << >>, "stats")

handleUpdate(document, previousDocument, src) ==
    IF ~document.present
    THEN Step(<< >>, << >>, "stats")
    ELSE IF statusChanged(document, previousDocument) /\ document.email
         THEN Step(broadcastOrderUpdated(document, previousDocument, src),
                   << [kind |-> "status-change", order |-> document,
                       oldStatus |-> previousDocument.status,
                       newStatus |-> document.status, src |-> src] >>,
                   "email")
         ELSE Step(broadcastOrderUpdated(document, previousDocument, src)
                       \o delivered(document, previousDocument, src),
                   << >>, "stats")

\* a handleDelete that passes the prior snapshot on without the stub fallback
deletedOrderInfoNoStub(orderId, previousDocument) == previousDocument

\* handleDelete, lines 172-177
deletedOrderInfo(orderId, previousDocument) ==
    IF previousDocument.present
    THEN previousDocument
    ELSE [present |-> TRUE, id |-> orderId, status |-> "deleted",
          email |-> FALSE, customer_name |-> "Unknown"]

\* a handleDelete that sends the cancelled email for every prior snapshot
handleDeleteNoAddressCheck(documentKey, previousDocument, src) ==
    IF previousDocument.present
    THEN Step(broadcastOrderDeleted(deletedOrderInfo(documentKey, previousDocument), src),
              << [kind |-> "cancelled", order |-> previousDocument, src |-> src] >>,
              "email")
    ELSE Step(broadcastOrderDeleted(deletedOrderInfo(documentKey, previousDocument), src),
              << >>, "stats")

handleDelete(documentKey, previousDocument, src) ==
    IF previousDocument.present /\ previousDocument.email
    THEN Step(broadcastOrderDeleted(deletedOrderInfo(documentKey, previousDocument), src),
              << [kind |-> "cancelled", order |-> previousDocument, src |-> src] >>,
              "email")
    ELSE Step(broadcastOrderDeleted(deletedOrderInfo(documentKey, previousDocument), src),
              << >>, "stats")

handleReplace(document, previousDocument, src) ==
    IF ~document.present
    THEN Step(<< >>, << >>, "thrown")
    ELSE handleUpdate(document, previousDocument, src)

\* a switch whose default branch falls into the delete handler
handleChangeDefaultDeletes(change, src) ==
    IF change.documentKey = 0 THEN Step(<< >>, << >>, "thrown") ELSE
    CASE change.operationType = "insert" ->
             handleInsert(change.fullDocument, src)
      [] change.operationType = "update" ->
             handleUpdate(change.fullDocument, change.fullDocumentBeforeChange, src)
      [] change.operationType = "replace" ->
             handleReplace(change.fullDocument, change.fullDocumentBeforeChange, src)
      [] OTHER ->
             handleDelete(change.documentKey, change.fullDocumentBeforeChange, src)

\* handleChange up to its first suspension.  Line 79 reads documentKey._id
\* before the try: without a documentKey the call rejects with a TypeError,
\* which the listener's catch (lines 48-50) logs
handleChange(change, src) ==
    IF change.documentKey = 0 THEN Step(<< >>, << >>, "thrown") ELSE
    CASE change.operationType = "insert" ->
             handleInsert(change.fullDocument, src)
      [] change.operationType = "update" ->
             handleUpdate(change.fullDocument, change.fullDocumentBeforeChange, src)
      [] change.operationType = "delete" ->
             handleDelete(change.documentKey, change.fullDocumentBeforeChange, src)
      [] change.operationType = "replace" ->
             handleReplace(change.fullDocument, change.fullDocumentBeforeChange, src)
      [] OTHER -> Step(<< >>, << >>, "stats")

\* the promise jobs between the return of a handler and the continuation of
\* handleChange after `await this.handleX(...)` (lines 85-97): one for the
\* await; two for a replace, whose handleReplace awaits handleUpdate (line
\* 193); none in the default branch, which awaits nothing before line 104
awaitTicks(operationType) ==
    CASE operationType \in {"insert", "update", "delete"} -> 1
      [] operationType = "replace" -> 2
      [] OTHER -> 0

\* the promise jobs between a sendXEmail call that returns "not configured"
\* (sendEmail line 114) and the continuation of the handler that awaits it:
\* one for `return await this.sendEmail(...)` (part_002 lines 324, 330, 336),
\* one for the handler's await (lines 119, 143, 183)
sendTicks(kind) == 2

\* what the handler emits when its awaited EmailService call has returned
afterEmail(change, src) ==
    IF change.operationType \in {"update", "replace"}
    THEN delivered(change.fullDocument, change.fullDocumentBeforeChange, src)
    ELSE << >>

\* ------------------------------------------------------------ promise jobs
\* Code after an await runs as a promise job, once the synchronous run that
\* reached the await has ended; jobs run in the order they were queued, and a
\* callback of the event loop (timer, I/O, socket event) runs only when no job
\* is left.  run is
\*   "idle"   no job is queued
\*   "api"    a caller of the service's API is running: it may make further
\*            calls before the jobs run
\*   "feed"   change stream s is emitting 'change' events: it may emit
\*            further ones before the jobs run
\*   "drain"  the jobs are running
NoMicro == [run |-> "idle", s |-> 0, queue |-> << >>]

Idle == micro.queue = << >>

\* a job: what resumes (kind), for which change (s, n), after how many jobs
\* (left, 1: it is the next of its chain)
Job(kind, s, n, left) == [kind |-> kind, s |-> s, n |-> n, left |-> left]

\* the run may go on: an API call by the caller that made the last one
ApiRun == micro.run \in {"idle", "api"}

\* the run may go on: a further 'change' event of stream s
FeedRun(s) == micro.run = "idle" \/ (micro.run = "feed" /\ micro.s = s)

\* the jobs queued behind those of m, in a run of the given kind
Queued(m, run, s, jobs) ==
    IF jobs = << >> THEN m
    ELSE [run |-> run, s |-> s, queue |-> m.queue \o jobs]

\* the queue once its first job has been taken out to run
Taken == [run |-> "drain", s |-> 0, queue |-> Tail(micro.queue)]

\* the queue after a job has run and queued the given jobs
Drained(m, jobs) ==
    IF m.queue \o jobs = << >> THEN NoMicro
    ELSE [run |-> "drain", s |-> 0, queue |-> m.queue \o jobs]

\* ------------------------------------------------------------ ChangeStreamService: lifecycle
NoStreak == [k |-> 0, fired |-> 0, elapsed |-> 0]

\* a backoff that forgets the "- 1" of the exponent
backoffDelayOffByOne(count) == retryDelay * 2 ^ count

\* line 212: const delay = this.retryDelay * Math.pow(2, this.retryCount - 1)
backoffDelay(count) == retryDelay * 2 ^ (count - 1)

\* a budget test that allows one retry too many
mayRetryInclusive(count) == count <= maxRetries

\* line 210: if (this.retryCount < this.maxRetries)
mayRetry(count) == count < maxRetries

\* a startChangeStream that forgets to reset the counter
retryCountKept(count) == count

\* line 63: this.retryCount = 0
retryCountAfterOpen(count) == 0

\* ChangeStream.close() as called by the service: no change is delivered after
\* the call; the 'close' event and the promise come later (closeDone)
closeStream(strs, s) ==
    IF strs[s].st = "open" THEN [strs EXCEPT ![s].st = "closing"] ELSE strs

RemoveAt(seq, i) ==
    [j \in 1..(Len(seq) - 1) |-> IF j < i THEN seq[j] ELSE seq[j + 1]]

\* handleError, lines 210 and 231-238: the budget is used up and the
\* service-error broadcast throws, so the promise of handleError rejects
handleErrorThrows == ioThrows /\ ~mayRetry(retryCount)

\* a handleError that keeps its reference to the stream it closed
handleErrorTailKeepsStream(tm, sk) ==
    /\ changeStream' = changeStream
    /\ isRunning' = FALSE
    /\ IF mayRetry(retryCount)
       THEN /\ retryCount' = retryCount + 1
            /\ timers' = Append(tm, [kind |-> "retry",
                                     left |-> backoffDelay(retryCount + 1),
                                     delay |-> backoffDelay(retryCount + 1),
                                     k |-> sk.k + 1])
            /\ streak' = [sk EXCEPT !.k = @ + 1]
            /\ UNCHANGED emitted
       ELSE /\ emitted' = IF ioThrows THEN emitted
                          ELSE emitted \o broadcastCustomMessage("service-error",
                              [service |-> "change-stream", status |-> "stopped"],
                              <<0, 0>>)
            /\ timers' = tm
            /\ streak' = sk
            /\ UNCHANGED retryCount

\* handleError from line 205 on: after the awaited close(), or at once when
\* there is no stream.  The broadcast of lines 231-238 is in no try: when
\* io.emit throws, nothing is emitted and handleError rejects (handleErrorThrows).
\* tm, sk: the timers and the streak as the caller left them
handleErrorTail(tm, sk) ==
    /\ changeStream' = 0
    /\ isRunning' = FALSE
    /\ IF mayRetry(retryCount)
       THEN /\ retryCount' = retryCount + 1
            /\ timers' = Append(tm, [kind |-> "retry",
                                     left |-> backoffDelay(retryCount + 1),
                                     delay |-> backoffDelay(retryCount + 1),
                                     k |-> sk.k + 1])
            /\ streak' = [sk EXCEPT !.k = @ + 1]
            /\ UNCHANGED emitted
       ELSE /\ emitted' = IF ioThrows THEN emitted
                          ELSE emitted \o broadcastCustomMessage("service-error",
                              [service |-> "change-stream", status |-> "stopped"],
                              <<0, 0>>)
            /\ timers' = tm
            /\ streak' = sk
            /\ UNCHANGED retryCount

\* handleError, lines 196-206: close the current stream and wait for it.
\* by: the code that awaits this handleError, the catch of start() ("start"),
\* the 'error' listener ("listener") or the retry callback ("retry")
handleError(strs, tm, sk, by) ==
    IF changeStream # 0
    THEN /\ streams' = closeStream(strs, changeStream)
         /\ waiters' = Append(waiters, [kind |-> "handleError", s |-> changeStream,
                                        by |-> by])
         /\ timers' = tm
         /\ streak' = sk
         /\ UNCHANGED <<changeStream, isRunning, retryCount, emitted>>
    ELSE /\ handleErrorTail(tm, sk)
         /\ streams' = strs
         /\ UNCHANGED waiters

\* startChangeStream, lines 34-68: the stream is opened with its listeners
\* and the counter reset; isRunning is left to the caller
startChangeStream(tm) ==
    /\ Len(streams) < MaxStreams
    /\ streams' = Append(streams, [st |-> "open", from |-> Len(feed) + 1,
                                    pos |-> Len(feed) + 1])
    /\ handled' = Append(handled, << >>)
    /\ changeStream' = Len(streams) + 1
    /\ retryCount' = retryCountAfterOpen(retryCount)
    /\ streak' = NoStreak
    /\ timers' = tm
    /\ UNCHANGED <<waiters, emitted, faults>>

\* startChangeStream threw (collection.watch() failed) in the retry callback:
\* its catch runs handleError (lines 225-227)
startChangeStreamThrows(tm, sk, F) ==
    /\ faults < F
    /\ faults' = faults + 1
    /\ handleError(streams, tm, sk, "retry")
    /\ UNCHANGED handled

\* start, lines 17-31: the body is one try whose catch awaits handleError and
\* does not rethrow what it caught, so the promise resolves whether the open
\* succeeded or not, unless the awaited handleError itself threw
startSettles(threw) == IF threw THEN "rejected" ELSE "resolved"

\* one more start() promise settled
Settle(ret, outcome) == [ret EXCEPT ![outcome] = @ + 1]

\* start() at line 25: startChangeStream() runs to its end, or throws, and
\* start() is suspended on its promise; the code after the await (line 26, or
\* the catch of lines 28-30) is a promise job.  m: the jobs queued so far
startOpens(tm, sk, F, m) ==
    \/ /\ startChangeStream(tm)
       /\ micro' = [m EXCEPT !.queue = Append(@, Job("opened", 0, 0, 1))]
    \/ /\ faults < F
       /\ faults' = faults + 1
       /\ micro' = [m EXCEPT !.queue = Append(@, Job("failed", 0, 0, 1))]
       /\ timers' = tm
       /\ streak' = sk
       /\ UNCHANGED <<changeStream, retryCount, streams, waiters, emitted,
                      handled>>

\* a start() without the readyState test of lines 18-23
startNoWait(tm, sk, F, m) ==
    /\ startOpens(tm, sk, F, m)
    /\ UNCHANGED startWaiting

\* start, lines 16-25, up to its first await
start(tm, sk, F, m) ==
    IF ~mongoReady
    THEN /\ startWaiting' = startWaiting + 1
         /\ timers' = tm
         /\ streak' = sk
         /\ micro' = IF m.queue = << >> THEN NoMicro ELSE m
         /\ UNCHANGED <<changeStream, retryCount, streams, waiters,
                        emitted, handled, faults>>
    ELSE /\ startOpens(tm, sk, F, m)
         /\ UNCHANGED startWaiting

\* ------------------------------------------------------------ WebSocketService: connections
\* socket ids: every connection gets a fresh one
ClientIds == 1..MaxClients

\* the order ids a client may name in a command; 0 is a missing (falsy) id
OrderIds == {1, 2}

\* a fan-out that sends the record-scoped copy to every connected socket
reachesEverySocket(message, socketId, connected, joined) == socketId \in connected

\* io.emit reaches every connected socket, io.to(`order-${id}`).emit the
\* sockets that joined that room (lines 525, 530 and alike)
reaches(message, socketId, connected, joined) ==
    /\ socketId \in connected
    /\ message.room = 0 \/ message.room \in joined[socketId]

\* an all-or-nothing fan-out: one failing connection aborts the emit
deliverAllOrNothing(messages, connected, joined) ==
    [c \in ClientIds |->
        LET Test(m) == dead = {} /\ reaches(m, c, connected, joined)
        IN received[c] \o SelectSeq(messages, Test)]

\* every socket's inbox after the messages were emitted
deliver(messages, connected, joined) ==
    [c \in ClientIds |->
        LET Test(m) == reaches(m, c, connected, joined)
        IN received[c] \o SelectSeq(messages, Test)]

\* a stop() that takes the io server down with it: nothing emitted after it
\* reaches a socket
FanoutClosedByStop ==
    /\ received' = deliver(SubSeq(emitted', Len(emitted) + 1, Len(emitted')),
                           IF calls.stop > 0 THEN {} ELSE sockets \ dead, rooms)
    /\ UNCHANGED <<sockets, connectedClients, rooms, statsRequests, dead,
                   commands>>

\* what a step of the change-stream side does to the sockets: the messages it
\* emitted go out, connections and rooms stay as they are
Fanout ==
    /\ received' = deliver(SubSeq(emitted', Len(emitted) + 1, Len(emitted')),
                           sockets \ dead, rooms)
    /\ UNCHANGED <<sockets, connectedClients, rooms, statsRequests, dead,
                   commands>>

\* a registry keyed by something connections share: the newcomer replaces
registerShared(clients, clientId) == {clientId}

\* line 410: this.connectedClients.set(clientId, clientInfo)
register(clients, clientId) == clients \cup {clientId}

\* line 426: this.connectedClients.delete(clientId)
unregister(clients, clientId) == clients \ {clientId}

\* getConnectionStats().total_connections, lines 611-614
total_connections == Cardinality(connectedClients)

\* a join that toggles the membership
joinToggle(joined, orderId) ==
    IF orderId \in joined THEN joined \ {orderId} ELSE joined \cup {orderId}

\* line 467: socket.join(`order-${orderId}`)
join(joined, orderId) == joined \cup {orderId}

\* line 475: socket.leave(`order-${orderId}`)
leave(joined, orderId) == joined \ {orderId}

\* room -1: sent with socket.emit to the one socket
connectionAck(clientId) ==
    [event |-> "connection-ack", room |-> -1, clientId |-> clientId,
     src |-> <<0, 0>>]

subscriptionAck(orderId, subscribed) ==
    [event |-> "subscription-ack", room |-> -1, orderId |-> orderId,
     subscribed |-> subscribed, src |-> <<0, 0>>]

clientStats == [event |-> "order-stats", room |-> -1, src |-> <<0, 0>>]

\* a count taken before the registry was changed
broadcastClientCountStale(clients) ==
    << [event |-> "client-count-update", room |-> 0,
        connected_clients |-> Cardinality(connectedClients), src |-> <<0, 0>>] >>

\* lines 600-607: io.emit("client-count-update", { connected_clients: size })
broadcastClientCount(clients) ==
    << [event |-> "client-count-update", room |-> 0,
        connected_clients |-> Cardinality(clients), src |-> <<0, 0>>] >>

\* ------------------------------------------------------------ actions
emailVars == <<transporter, isConfigured, verifying>>

feedVars == <<feed, tasks, notified, sent, statsCalls, mailed, emailVars, hook,
              ioClosed, ioThrows>>

\* a call of the service's API, by a caller that may have made others in the
\* same synchronous run
ApiCall(kind) ==
    /\ ApiRun
    /\ calls' = [calls EXCEPT ![kind] = @ + 1]

\* the jobs queued so far, as a call of the API finds them
InApiRun == [micro EXCEPT !.run = "api"]

RestartTimer == [kind |-> "restart", left |-> restartDelay, delay |-> restartDelay, k |-> 0]

\* an API call: changeStreamService.start(), up to its first await
Start(F) ==
    /\ ApiCall("start")
    /\ start(timers, streak, F, InApiRun)
    /\ UNCHANGED <<isRunning, mongoReady, attempt, returned>>
    /\ UNCHANGED feedVars
    /\ Fanout

\* mongoose.connection emits "connected": the promise of every start() that
\* waits for it (lines 20-22) resolves
MongoConnected ==
    /\ Idle
    /\ ~mongoReady
    /\ mongoReady' = TRUE
    /\ startWaiting' = 0
    /\ micro' = Drained(micro, [j \in 1..startWaiting |-> Job("resume", 0, 0, 1)])
    /\ UNCHANGED <<changeStream, isRunning, retryCount, streams, timers, waiters,
                   emitted, handled, calls, faults, streak, attempt>>
    /\ UNCHANGED feedVars
    /\ UNCHANGED returned
    /\ Fanout

\* start() resumes at line 25 once "connected" was observed
StartResumes(F) ==
    /\ startOpens(timers, streak, F, Taken)
    /\ UNCHANGED <<isRunning, mongoReady, startWaiting, calls, attempt, returned>>
    /\ UNCHANGED feedVars
    /\ Fanout

\* start() resumes at line 26: `this.isRunning = true`, and returns
StartContinues ==
    /\ isRunning' = TRUE
    /\ returned' = Settle(returned, startSettles(FALSE))
    /\ micro' = Drained(Taken, << >>)
    /\ UNCHANGED <<changeStream, retryCount, mongoReady, streams, timers, waiters,
                   startWaiting, emitted, handled, calls, faults, streak, attempt>>
    /\ UNCHANGED feedVars
    /\ Fanout

\* start() resumes in its catch, lines 28-30: handleError runs up to its
\* awaited close(), or to its end when there is no stream to close; start()
\* returns when handleError has
StartCatches ==
    /\ handleError(streams, timers, streak, "start")
    /\ returned' = IF changeStream = 0
                   THEN Settle(returned, startSettles(handleErrorThrows))
                   ELSE returned
    /\ micro' = Drained(Taken, << >>)
    /\ UNCHANGED <<mongoReady, startWaiting, handled, calls, faults, attempt>>
    /\ UNCHANGED feedVars
    /\ Fanout

\* restart() resumes at line 278 after a stop() that had no stream to close
RestartContinues ==
    /\ timers' = Append(timers, RestartTimer)
    /\ micro' = Drained(Taken, << >>)
    /\ UNCHANGED <<changeStream, isRunning, retryCount, mongoReady, streams,
                   waiters, startWaiting, emitted, handled, calls, faults, streak,
                   attempt, returned>>
    /\ UNCHANGED feedVars
    /\ Fanout

\* a stop() that also resets the retry counter
StopResetsCounter ==
    /\ ApiCall("stop")
    /\ isRunning' = FALSE
    /\ retryCount' = 0
    /\ IF changeStream # 0
       THEN /\ streams' = closeStream(streams, changeStream)
            /\ waiters' = Append(waiters, [kind |-> "stop", s |-> changeStream,
                                           by |-> "api"])
       ELSE UNCHANGED <<streams, waiters>>
    /\ UNCHANGED <<changeStream, mongoReady, timers, startWaiting,
                   emitted, handled, faults, streak, attempt>>
    /\ UNCHANGED feedVars
    /\ UNCHANGED <<returned, micro>>
    /\ Fanout

\* an API call: stop(), lines 243-257, up to the awaited close()
Stop ==
    /\ ApiCall("stop")
    /\ isRunning' = FALSE
    /\ IF changeStream # 0
       THEN /\ streams' = closeStream(streams, changeStream)
            /\ waiters' = Append(waiters, [kind |-> "stop", s |-> changeStream,
                                           by |-> "api"])
       ELSE UNCHANGED <<streams, waiters>>
    /\ UNCHANGED <<changeStream, retryCount, mongoReady, timers, startWaiting,
                   emitted, handled, faults, streak, attempt>>
    /\ UNCHANGED feedVars
    /\ UNCHANGED <<returned, micro>>
    /\ Fanout

\* an API call: restart(), lines 275-277, up to its first await: stop() is
\* suspended on close(), or has returned and restart() goes on in a job
Restart ==
    /\ ApiCall("other")
    /\ isRunning' = FALSE
    /\ IF changeStream # 0
       THEN /\ streams' = closeStream(streams, changeStream)
            /\ waiters' = Append(waiters, [kind |-> "restart", s |-> changeStream,
                                           by |-> "api"])
            /\ UNCHANGED micro
       ELSE /\ micro' = [InApiRun EXCEPT !.queue = Append(@, Job("restart", 0, 0, 1))]
            /\ UNCHANGED <<streams, waiters>>
    /\ UNCHANGED <<changeStream, retryCount, mongoReady, timers, startWaiting,
                   emitted, handled, faults, streak, attempt>>
    /\ UNCHANGED feedVars
    /\ UNCHANGED returned
    /\ Fanout

\* an API call: resetRetryCount(), lines 270-273
ResetRetryCount ==
    /\ ApiCall("other")
    /\ retryCount' = 0
    /\ streak' = NoStreak
    /\ UNCHANGED <<changeStream, isRunning, mongoReady, streams, timers, waiters,
                   startWaiting, emitted, handled, faults, attempt>>
    /\ UNCHANGED feedVars
    /\ UNCHANGED <<returned, micro>>
    /\ Fanout

\* the stream's close completes: 'close' listener (lines 58-61)
CloseDone(s) ==
    /\ Idle
    /\ streams[s].st = "closing"
    /\ streams' = [streams EXCEPT ![s].st = "closed"]
    /\ isRunning' = FALSE
    /\ UNCHANGED <<changeStream, retryCount, mongoReady, timers, waiters,
                   startWaiting, emitted, handled, calls, faults, streak, attempt>>
    /\ UNCHANGED feedVars
    /\ UNCHANGED <<returned, micro>>
    /\ Fanout

\* the stream ends without an error (the driver closes it, e.g. after the
\* collection was dropped): only the 'close' listener runs (lines 58-61)
StreamCloses(s) ==
    /\ Idle
    /\ streams[s].st = "open"
    /\ streams' = [streams EXCEPT ![s].st = "closed"]
    /\ isRunning' = FALSE
    /\ UNCHANGED <<changeStream, retryCount, mongoReady, timers, waiters,
                   startWaiting, emitted, handled, calls, faults, streak, attempt>>
    /\ UNCHANGED feedVars
    /\ UNCHANGED <<returned, micro>>
    /\ Fanout

\* a handleError that was suspended on close() has finished: when it was the
\* catch of a start() that awaited it (lines 28-31), that start() returns, or
\* rejects with what handleError threw; a handleError called by the 'error'
\* listener or by the retry callback settles no start()
startReturns(ret, by) ==
    IF by = "start" THEN Settle(ret, startSettles(handleErrorThrows)) ELSE ret

\* `await this.changeStream.close()` returns in handleError, stop or restart
CloseResumes(i) ==
    /\ Idle
    /\ UNCHANGED micro
    /\ waiters[i].kind \in {"handleError", "stop", "restart"}
    /\ streams[waiters[i].s].st = "closed"
    /\ waiters' = RemoveAt(waiters, i)
    /\ CASE waiters[i].kind = "handleError" ->
                /\ handleErrorTail(timers, streak)
                /\ returned' = startReturns(returned, waiters[i].by)
           [] waiters[i].kind = "stop" ->
                /\ changeStream' = 0
                /\ UNCHANGED <<isRunning, retryCount, timers, emitted, streak,
                               returned>>
           [] waiters[i].kind = "restart" ->
                /\ changeStream' = 0
                /\ timers' = Append(timers, RestartTimer)
                /\ UNCHANGED <<isRunning, retryCount, emitted, streak, returned>>
    /\ UNCHANGED <<mongoReady, streams, startWaiting, handled, calls, faults, attempt>>
    /\ UNCHANGED feedVars
    /\ Fanout

\* the stream emits 'error' (lines 53-56) and, as the driver does for an error
\* it does not resume from, closes itself
FeedError(s, F) ==
    /\ Idle
    /\ streams[s].st = "open"
    /\ faults < F
    /\ faults' = faults + 1
    /\ handleError(closeStream(streams, s), timers, streak, "listener")
    /\ UNCHANGED <<mongoReady, startWaiting, handled, calls, attempt>>
    /\ UNCHANGED feedVars
    /\ UNCHANGED <<returned, micro>>
    /\ Fanout

\* the timers after timers[i] fired: time has advanced by its remaining delay
TimersAfter(i) ==
    LET rest == RemoveAt(timers, i)
    IN [j \in 1..Len(rest) |-> [rest[j] EXCEPT !.left = @ - timers[i].left]]

StreakAfter(i) ==
    IF streak.k > 0 THEN [streak EXCEPT !.elapsed = @ + timers[i].left] ELSE streak

IsNext(i) == \A j \in 1..Len(timers) : timers[j].left >= timers[i].left

\* the retry timer's callback, lines 220-229: no other code runs between its
\* await of startChangeStream() and line 223, or its catch
RetryTimerFires(i, F) ==
    /\ Idle
    /\ timers[i].kind = "retry"
    /\ IsNext(i)
    /\ attempt' = [k |-> timers[i].k, n |-> streak.fired + 1,
                   at |-> StreakAfter(i).elapsed, total |-> attempt.total + 1]
    /\ \/ /\ startChangeStream(TimersAfter(i))
          /\ isRunning' = TRUE
       \/ startChangeStreamThrows(TimersAfter(i),
                                  [StreakAfter(i) EXCEPT !.fired = @ + 1], F)
    /\ UNCHANGED <<mongoReady, startWaiting, calls>>
    /\ UNCHANGED feedVars
    /\ UNCHANGED <<returned, micro>>
    /\ Fanout

\* restart(), line 279: the 1 s wait is over, start() is called
RestartTimerFires(i, F) ==
    /\ Idle
    /\ timers[i].kind = "restart"
    /\ IsNext(i)
    /\ start(TimersAfter(i), StreakAfter(i), F, [micro EXCEPT !.run = "drain"])
    /\ UNCHANGED <<isRunning, mongoReady, calls, attempt, returned>>
    /\ UNCHANGED feedVars
    /\ Fanout

lifeVars == <<changeStream, isRunning, retryCount, mongoReady, timers, waiters,
              startWaiting, calls, faults, streak, attempt, returned, hook,
              ioClosed, ioThrows>>

\* a mutation of the orders collection
Mutate(change, E) ==
    /\ Len(feed) < E
    /\ feed' = Append(feed, change)
    /\ UNCHANGED <<streams, tasks, emitted, notified, sent, statsCalls, handled,
                   mailed, emailVars, hook, ioClosed, ioThrows, micro>>
    /\ UNCHANGED lifeVars
    /\ Fanout

\* a sendEmail without the isConfigured test: the transport is always used
transportInvokedAlways(configured) == TRUE

\* sendEmail, lines 110-115: without configuration the call returns at once,
\* only a configured service goes on to transporter.sendMail (line 138)
transportInvoked(configured) == configured

\* the changes whose send reached transporter.sendMail
Mailed == {mailed[i].src : i \in 1..Len(mailed)}

\* a listener attached twice: handleChange runs twice for one change
invocationsTwice(n) == << n, n >>

\* lines 45-51: the listener calls handleChange once for the change it is given
invocations(n) == << n >>

\* a listener that takes the next change only when no earlier handleChange of
\* its stream is still suspended
listenerReadyWhenIdle(pending) == pending = {}

\* lines 45-51: the emitter calls the async listener for every change and does
\* not wait for the promise of an earlier call
listenerReady(pending) == TRUE

\* the stream's 'change' listener, lines 45-51: handleChange is called at once
\* and runs to its first await.  A handler that returned leaves handleChange
\* suspended on its promise ("handler"); a send that did not reach the
\* transport has returned too, and the handler is suspended on its promise
ChangeListener(s) ==
    LET n == streams[s].pos
        step == handleChange(feed[n], <<s, n>>)
        ticks == awaitTicks(feed[n].operationType)
        invoked == transportInvoked(isConfigured)
        jobs == IF step.at = "email" /\ ~invoked
                THEN << Job("change", s, n, sendTicks(step.mail[1].kind)) >>
                ELSE IF step.at = "stats" /\ ticks > 0
                THEN << Job("change", s, n, ticks) >>
                ELSE << >>
    IN /\ FeedRun(s)
       /\ streams[s].st = "open"
       /\ n <= Len(feed)
       /\ listenerReady({t \in tasks : t.s = s})
       /\ streams' = [streams EXCEPT ![s].pos = n + 1]
       /\ handled' = [handled EXCEPT ![s] = @ \o invocations(n)]
       /\ emitted' = emitted \o step.out
       /\ notified' = notified \o step.mail
       /\ tasks' = CASE step.at = "thrown" -> tasks
                     [] step.at = "email" ->
                            tasks \cup {[s |-> s, n |-> n, at |-> "email"]}
                     [] step.at = "stats" /\ ticks > 0 ->
                            tasks \cup {[s |-> s, n |-> n, at |-> "handler"]}
                     [] OTHER -> tasks \cup {[s |-> s, n |-> n, at |-> "stats"]}
       /\ statsCalls' = IF step.at = "stats" /\ ticks = 0
                        THEN Append(statsCalls, <<s, n>>)
                        ELSE statsCalls
       /\ mailed' = IF invoked THEN mailed \o step.mail ELSE mailed
       /\ micro' = Queued(micro, "feed", s, jobs)
       /\ UNCHANGED <<feed, sent, emailVars>>
       /\ UNCHANGED lifeVars
       /\ Fanout

\* how an awaited sendXEmail call that reached the transport can settle:
\*   "sent"    transporter.sendMail resolved (sendEmail, lines 138-149)
\*   "failed"  sendMail rejected and sendEmail's catch returned
\*             { success: false } (lines 158-172)
\*   "threw"   the call rejected (an error raised outside sendEmail's try)
SendOutcomes == {"sent", "failed", "threw"}

\* how a sendXEmail call settles: one that did not reach the transport returns
\* { success: false, message: "Email service not configured" } (line 114)
sendResults(invoked) == IF invoked THEN SendOutcomes ELSE {"not configured"}

\* a handler without the try/catch around its send: a rejected call reaches
\* handleChange's catch
afterSendUncaught(outcome) == IF outcome = "threw" THEN "thrown" ELSE "stats"

\* the try/catch around each awaited send (lines 118-122, 142-150, 182-186):
\* whatever the outcome, the handler goes on
afterSend(outcome) == "stats"

\* the awaited EmailService call has settled: the handler runs on to its end
\* and leaves handleChange suspended on its promise.  m: the jobs queued
HandlerResumes(t, outcome, m) ==
    LET at == afterSend(outcome)
        op == feed[t.n].operationType
    IN /\ t.at = "email"
       /\ sent' = Append(sent, [src |-> <<t.s, t.n>>, outcome |-> outcome])
       /\ emitted' = IF at = "stats"
                     THEN emitted \o afterEmail(feed[t.n], <<t.s, t.n>>)
                     ELSE emitted
       /\ tasks' = IF at = "stats"
                   THEN (tasks \ {t}) \cup {[t EXCEPT !.at = "handler"]}
                   ELSE tasks \ {t}
       /\ micro' = IF at = "stats"
                   THEN Drained(m, << Job("change", t.s, t.n, awaitTicks(op)) >>)
                   ELSE Drained(m, << >>)
       /\ UNCHANGED <<streams, feed, notified, statsCalls, handled, mailed,
                      emailVars>>
       /\ UNCHANGED lifeVars
       /\ Fanout

\* transporter.sendMail has settled for a send that reached the transport
EmailReturns(t, outcome) ==
    /\ Idle
    /\ <<t.s, t.n>> \in Mailed
    /\ outcome \in sendResults(TRUE)
    /\ HandlerResumes(t, outcome, micro)

\* handleChange resumes after `await this.handleX(...)` and calls
\* broadcastStats() (line 104), which starts its two queries
HandleChangeResumes(t) ==
    /\ t.at = "handler"
    /\ statsCalls' = Append(statsCalls, <<t.s, t.n>>)
    /\ tasks' = (tasks \ {t}) \cup {[t EXCEPT !.at = "stats"]}
    /\ micro' = Drained(Taken, << >>)
    /\ UNCHANGED <<streams, feed, emitted, notified, sent, handled, mailed,
                   emailVars>>
    /\ UNCHANGED lifeVars
    /\ Fanout

\* a job of the chain that leads from a settled promise to the code that
\* awaits it: the job before the last queues the next, the last resumes the
\* handler (after a send that did not reach the transport) or handleChange
ChangeContinues(job) ==
    IF job.left > 1
    THEN /\ micro' = Drained(Taken, << [job EXCEPT !.left = @ - 1] >>)
         /\ UNCHANGED <<streams, feed, tasks, emitted, notified, sent,
                        statsCalls, handled, mailed, emailVars>>
         /\ UNCHANGED lifeVars
         /\ Fanout
    ELSE LET t == CHOOSE u \in tasks : u.s = job.s /\ u.n = job.n
         IN IF t.at = "email"
            THEN \E outcome \in sendResults(FALSE) : HandlerResumes(t, outcome, Taken)
            ELSE HandleChangeResumes(t)

\* the next promise job runs
Microtask(F) ==
    /\ ~Idle
    /\ LET job == Head(micro.queue)
       IN CASE job.kind = "opened" -> StartContinues
            [] job.kind = "failed" -> StartCatches
            [] job.kind = "resume" -> StartResumes(F)
            [] job.kind = "restart" -> RestartContinues
            [] job.kind = "change" -> ChangeContinues(job)

\* broadcastStats, lines 573-598: the two queries resolve (ok) or one rejects
StatsReturns(t, ok) ==
    /\ Idle
    /\ UNCHANGED micro
    /\ t.at = "stats"
    /\ emitted' = IF ok THEN emitted \o broadcastStats(<<t.s, t.n>>) ELSE emitted
    /\ tasks' = tasks \ {t}
    /\ UNCHANGED <<streams, feed, notified, sent, statsCalls, handled, mailed,
                   emailVars>>
    /\ UNCHANGED lifeVars
    /\ Fanout

\* the handler's first WebSocketService call throws after k of its emits: the
\* calls at lines 115, 139 and 179 are outside any try of the handler, so the
\* error leaves the handler and the switch for handleChange's catch (105-107)
broadcastThrows(step, k) == Step(SubSeq(step.out, 1, k), << >>, "thrown")

\* the 'change' listener runs handleChange and the broadcast of the change
\* throws: in io.emit (k = 0) or in the record-scoped emit after it (k = 1)
BroadcastThrows(s, k) ==
    LET n == streams[s].pos
        step == handleChange(feed[n], <<s, n>>)
        thrown == broadcastThrows(step, k)
    IN /\ FeedRun(s)
       /\ UNCHANGED micro
       /\ streams[s].st = "open"
       /\ n <= Len(feed)
       /\ step.out # << >>
       /\ streams' = [streams EXCEPT ![s].pos = n + 1]
       /\ handled' = [handled EXCEPT ![s] = @ \o invocations(n)]
       /\ emitted' = emitted \o thrown.out
       /\ notified' = notified \o thrown.mail
       /\ UNCHANGED <<feed, tasks, sent, statsCalls, mailed, emailVars>>
       /\ UNCHANGED lifeVars
       /\ Fanout

\* verifyConnection, lines 49-77: transporter.verify() resolves (ok) and the
\* service is configured, or it rejects and the service stays unconfigured
VerifyConnection(ok) ==
    /\ Idle
    /\ UNCHANGED micro
    /\ verifying
    /\ verifying' = FALSE
    /\ isConfigured' = ok
    /\ UNCHANGED <<feed, tasks, notified, sent, statsCalls, mailed, transporter>>
    /\ UNCHANGED <<streams, emitted, handled>>
    /\ UNCHANGED lifeVars
    /\ Fanout

\* the largest number of sendTestEmail calls
MaxTestEmails == 1

\* the message sendTestEmail hands to sendEmail (lines 259-298); it belongs to
\* no change: its source is <<0, k>> for the k-th call
testEmail(k) == [kind |-> "test", src |-> <<0, k>>]

\* the sendTestEmail calls made so far
TestEmails ==
    Cardinality({i \in 1..Len(mailed) : mailed[i].src[1] = 0})
        + Cardinality({i \in 1..Len(sent) :
                          sent[i].src[1] = 0 /\ sent[i].outcome = "not configured"})

\* sendTestEmail, lines 256-318, up to its await: sendEmail returns the
\* "not configured" result at once (line 114) or calls transporter.sendMail
\* (line 138)
SendTestEmail ==
    LET k == TestEmails + 1
        invoked == transportInvoked(isConfigured)
    IN /\ ApiRun
       /\ UNCHANGED micro
       /\ TestEmails < MaxTestEmails
       /\ mailed' = IF invoked THEN Append(mailed, testEmail(k)) ELSE mailed
       /\ sent' = IF invoked
                  THEN sent
                  ELSE Append(sent, [src |-> <<0, k>>, outcome |-> "not configured"])
       /\ UNCHANGED <<feed, tasks, notified, statsCalls, emailVars>>
       /\ UNCHANGED <<streams, emitted, handled>>
       /\ UNCHANGED lifeVars
       /\ Fanout

\* transporter.sendMail has settled for the k-th test email: sendEmail returns
\* its result (lines 144-149, 166-170) and sendTestEmail logs and returns it
TestEmailReturns(k, outcome) ==
    /\ Idle
    /\ UNCHANGED micro
    /\ <<0, k>> \in Mailed
    /\ <<0, k>> \notin {sent[i].src : i \in 1..Len(sent)}
    /\ outcome \in sendResults(TRUE)
    /\ sent' = Append(sent, [src |-> <<0, k>>, outcome |-> outcome])
    /\ UNCHANGED <<feed, tasks, notified, statsCalls, mailed, emailVars>>
    /\ UNCHANGED <<streams, emitted, handled>>
    /\ UNCHANGED lifeVars
    /\ Fanout

serviceVars == <<changeStream, isRunning, retryCount, mongoReady, streams, timers,
                 waiters, startWaiting, handled, calls, faults, streak, attempt,
                 returned, micro>>

\* a client connects: the "connection" handler, lines 400-439
Connect(c) ==
    LET clients == register(connectedClients, c)
        online == sockets \cup {c}
        count == broadcastClientCount(clients)
    IN /\ Idle
       /\ ~ioClosed
       /\ c \notin sockets
       /\ received[c] = << >>
       /\ \A b \in ClientIds : b < c => received[b] # << >>
       /\ sockets' = online
       /\ connectedClients' = clients
       /\ statsRequests' = [statsRequests EXCEPT ![c] = @ + 1]
       /\ emitted' = emitted \o count
       /\ received' = [x \in ClientIds |->
                          IF x = c THEN <<connectionAck(c)>> \o count
                          ELSE deliver(count, online \ dead, rooms)[x]]
       /\ UNCHANGED <<rooms, dead, commands>>
       /\ UNCHANGED serviceVars
       /\ UNCHANGED feedVars

\* a socket disconnects: it leaves its rooms, then the "disconnect" handler,
\* lines 425-432
Disconnect(c) ==
    LET clients == unregister(connectedClients, c)
        online == sockets \ {c}
        joined == [rooms EXCEPT ![c] = {}]
        count == broadcastClientCount(clients)
    IN /\ Idle
       /\ c \in sockets
       /\ sockets' = online
       /\ rooms' = joined
       /\ connectedClients' = clients
       /\ emitted' = emitted \o count
       /\ received' = deliver(count, online \ dead, joined)
       /\ dead' = dead \ {c}
       /\ UNCHANGED <<statsRequests, commands>>
       /\ UNCHANGED serviceVars
       /\ UNCHANGED feedVars

\* the "subscribe-order" handler, lines 465-471
Subscribe(c, orderId) ==
    /\ Idle
    /\ c \in sockets \ dead
    /\ commands < MaxCommands
    /\ commands' = commands + 1
    /\ IF orderId # 0
       THEN /\ rooms' = [rooms EXCEPT ![c] = join(@, orderId)]
            /\ received' = [received EXCEPT ![c] =
                               Append(@, subscriptionAck(orderId, TRUE))]
       ELSE UNCHANGED <<rooms, received>>
    /\ UNCHANGED <<sockets, connectedClients, statsRequests, emitted, dead>>
    /\ UNCHANGED serviceVars
    /\ UNCHANGED feedVars

\* the "unsubscribe-order" handler, lines 473-481
Unsubscribe(c, orderId) ==
    /\ Idle
    /\ c \in sockets \ dead
    /\ commands < MaxCommands
    /\ commands' = commands + 1
    /\ IF orderId # 0
       THEN /\ rooms' = [rooms EXCEPT ![c] = leave(@, orderId)]
            /\ received' = [received EXCEPT ![c] =
                               Append(@, subscriptionAck(orderId, FALSE))]
       ELSE UNCHANGED <<rooms, received>>
    /\ UNCHANGED <<sockets, connectedClients, statsRequests, emitted, dead>>
    /\ UNCHANGED serviceVars
    /\ UNCHANGED feedVars

\* the "request-stats" handler, lines 461-463: sendStatsToClient(socket) is
\* called and starts its queries
RequestStats(c) ==
    /\ Idle
    /\ c \in sockets \ dead
    /\ commands < MaxCommands
    /\ commands' = commands + 1
    /\ statsRequests' = [statsRequests EXCEPT ![c] = @ + 1]
    /\ UNCHANGED <<sockets, connectedClients, rooms, emitted, received, dead>>
    /\ UNCHANGED serviceVars
    /\ UNCHANGED feedVars

\* sendStatsToClient, lines 494-516: the queries resolve (ok) or one rejects
ClientStatsReturns(c, ok) ==
    /\ Idle
    /\ statsRequests[c] > 0
    /\ statsRequests' = [statsRequests EXCEPT ![c] = @ - 1]
    /\ received' = IF ok /\ c \in sockets \ dead
                   THEN [received EXCEPT ![c] = Append(@, clientStats)]
                   ELSE received
    /\ UNCHANGED <<sockets, connectedClients, rooms, emitted, dead, commands>>
    /\ UNCHANGED serviceVars
    /\ UNCHANGED feedVars

\* io.close(), line 660: the server disconnects its sockets one after the
\* other, in the order they connected (ids are given in that order); each
\* leaves its rooms and runs its "disconnect" handler (lines 425-432), whose
\* client-count-update goes to the sockets still connected.
\* st: [sockets, connectedClients, rooms, emitted, received]
RECURSIVE closeSockets(_)
closeSockets(st) ==
    IF st.sockets = {}
    THEN st
    ELSE LET c == CHOOSE x \in st.sockets : \A y \in st.sockets : x <= y
             clients == unregister(st.connectedClients, c)
             online == st.sockets \ {c}
             joined == [st.rooms EXCEPT ![c] = {}]
             count == broadcastClientCount(clients)
             inbox == [x \in ClientIds |->
                          LET Test(m) == reaches(m, x, online \ dead, joined)
                          IN st.received[x] \o SelectSeq(count, Test)]
         IN closeSockets([sockets |-> online, connectedClients |-> clients,
                          rooms |-> joined, emitted |-> st.emitted \o count,
                          received |-> inbox])

\* WebSocketService.close(), lines 659-663: io.close(), then the registry is
\* cleared: what the step that calls it does to the sockets
close ==
    LET st == closeSockets([sockets |-> sockets,
                            connectedClients |-> connectedClients,
                            rooms |-> rooms, emitted |-> emitted,
                            received |-> received])
    IN /\ ioClosed' = TRUE
       /\ sockets' = st.sockets
       /\ connectedClients' = {}
       /\ rooms' = st.rooms
       /\ emitted' = st.emitted
       /\ received' = st.received
       /\ dead' = {}
       /\ UNCHANGED <<statsRequests, commands>>

\* the signals server.js handles
Signals == {"SIGINT", "SIGTERM"}

\* server.js, lines 72-74: the ChangeStreamService is constructed, in
\* production only, in the turn that calls its start(); `changeStreamService`
\* is set once start() has been called and stays undefined in development
changeStreamService == calls.start > 0

\* server.js, lines 96-113 (SIGINT) and 115-129 (SIGTERM): the handler of the
\* signal calls stop() (part_003, lines 243-257) when there is a service
\* (lines 99, 118) and is suspended on it.  On SIGINT the listener of
\* config/database.js (lines 35-38) runs as well: it closes the mongoose
\* connection, whose readyState leaves 1 at the call.  Without a service, or
\* when stop() has no stream to close and returns within the turn, the
\* handler goes on to webSocketService.close() (lines 104-107, 122-124);
\* else stop() and the handler wait for the stream's close().  The handlers
\* are registered with process.on: every further signal runs them again
Shutdown(sig) ==
    /\ Idle
    /\ mongoReady' = IF sig = "SIGINT" THEN FALSE ELSE mongoReady
    /\ IF changeStreamService
       THEN /\ ApiCall("stop")
            /\ isRunning' = FALSE
       ELSE UNCHANGED <<calls, isRunning>>
    /\ IF changeStreamService /\ changeStream # 0
       THEN /\ streams' = closeStream(streams, changeStream)
            /\ waiters' = Append(waiters, [kind |-> "shutdown", s |-> changeStream,
                                           by |-> sig])
            /\ UNCHANGED <<emitted, ioClosed>>
            /\ Fanout
       ELSE /\ UNCHANGED <<streams, waiters>>
            /\ close
    /\ UNCHANGED <<changeStream, retryCount, timers, startWaiting, handled, faults,
                   streak, attempt, returned, micro>>
    /\ UNCHANGED <<feed, tasks, notified, sent, statsCalls, mailed, emailVars,
                   hook, ioThrows>>

\* `await this.changeStream.close()` returns in the stop() a signal handler
\* awaits: stop() drops its reference (part_003, line 249) and returns, the
\* handler resumes and calls webSocketService.close() (server.js, lines
\* 104-107, 122-124).  Only promise jobs lie between the two
ShutdownResumes(i) ==
    /\ Idle
    /\ UNCHANGED micro
    /\ waiters[i].kind = "shutdown"
    /\ streams[waiters[i].s].st = "closed"
    /\ waiters' = RemoveAt(waiters, i)
    /\ changeStream' = 0
    /\ close
    /\ UNCHANGED <<isRunning, retryCount, mongoReady, streams, timers, startWaiting,
                   handled, calls, faults, streak, attempt, returned>>
    /\ UNCHANGED <<feed, tasks, notified, sent, statsCalls, mailed, emailVars,
                   hook, ioThrows>>

\* the largest number of sendToClient messages to one socket
MaxDirectMessages == 1

\* the message of a sendToClient call: the caller chooses event and data
directMessage == [event |-> "direct", room |-> -1, src |-> <<0, 0>>]

\* the sendToClient messages a socket was sent
DirectMessages(c) ==
    Cardinality({j \in 1..Len(received[c]) : received[c][j].event = "direct"})

\* sendToClient, lines 646-657: the socket is looked up and, when the server
\* has it, the event is emitted to it alone
SendToClient(c) ==
    /\ ApiRun
    /\ c \in sockets \ dead
    /\ DirectMessages(c) < MaxDirectMessages
    /\ received' = [received EXCEPT ![c] = Append(@, directMessage)]
    /\ UNCHANGED <<sockets, connectedClients, rooms, statsRequests, emitted, dead,
                   commands>>
    /\ UNCHANGED serviceVars
    /\ UNCHANGED feedVars

\* a socket's transport fails: the socket's "error" listener logs it (lines
\* 434-436); the socket stays registered until its "disconnect" is handled
TransportFails(c) ==
    /\ Idle
    /\ c \in sockets \ dead
    /\ dead' = dead \cup {c}
    /\ UNCHANGED <<sockets, connectedClients, rooms, statsRequests, emitted,
                   received, commands>>
    /\ UNCHANGED serviceVars
    /\ UNCHANGED feedVars

\* ------------------------------------------------------------ client hook
\* useWebSocket (frontend/src/hooks/useWebSocket.js). The hook's state:
\*   mounted              the mount effect has run and its cleanup has not
\*   sockets              every socket io() returned to this hook instance:
\*                        [st, listeners], st one of "connecting",
\*                        "connected", "disconnected"
\*   socketRef            socketRef.current: 0 is null, else the socket
\*   effectSocket         the `socket` the mount effect's closure holds
\*   pingIntervalRef      pingIntervalRef.current: 0 is null, else the socket
\*                        the pending interval pings
\*   reconnectTimeout     the setTimeout of reconnect() is pending
\*   mounts, reconnects   how often the effect ran and reconnect() was called
NoHook == [mounted |-> FALSE, sockets |-> << >>, socketRef |-> 0,
           effectSocket |-> 0, pingIntervalRef |-> 0,
           reconnectTimeout |-> FALSE, mounts |-> 0, reconnects |-> 0]

\* clearPingInterval, lines 188-193
clearPingInterval(h) == [h EXCEPT !.pingIntervalRef = 0]

\* startPingInterval, lines 175-185: clears the interval the ref holds, then
\* sets one that pings this socket
startPingInterval(h, i) == [clearPingInterval(h) EXCEPT !.pingIntervalRef = i]

\* connect, lines 27-165: nothing if socketRef.current is connected; else a
\* new socket from io(), stored in socketRef.current, with its listeners
connect(h) ==
    IF h.socketRef # 0 /\ h.sockets[h.socketRef].st = "connected"
    THEN h
    ELSE [h EXCEPT !.sockets = Append(@, [st |-> "connecting",
                                          listeners |-> TRUE]),
                   !.socketRef = Len(h.sockets) + 1]

\* what connect() returns: the new socket, or undefined (0) on its early return
connectReturns(h) ==
    IF h.socketRef # 0 /\ h.sockets[h.socketRef].st = "connected"
    THEN 0
    ELSE Len(h.sockets) + 1

\* socket.disconnect(): a connected socket emits "disconnect", whose listener
\* (lines 65-74) calls clearPingInterval(); the socket does not reconnect
disconnect(h, i) ==
    LET heard == h.sockets[i].st = "connected" /\ h.sockets[i].listeners
        h1 == IF heard THEN clearPingInterval(h) ELSE h
    IN [h1 EXCEPT !.sockets[i].st = "disconnected"]

\* reconnect, lines 196-210
reconnect(h) ==
    LET h1 == IF h.socketRef # 0 THEN disconnect(h, h.socketRef) ELSE h
    IN [h1 EXCEPT !.reconnectTimeout = TRUE, !.reconnects = @ + 1]

\* the mount effect's cleanup, lines 244-259: `socket` is the one connect()
\* returned when the effect ran
cleanup(h) ==
    LET h1 == [clearPingInterval(h) EXCEPT !.reconnectTimeout = FALSE]
        h2 == IF h.effectSocket # 0
              THEN disconnect([h1 EXCEPT !.sockets[h.effectSocket].listeners = FALSE],
                              h.effectSocket)
              ELSE h1
    IN [h2 EXCEPT !.socketRef = 0, !.effectSocket = 0, !.mounted = FALSE]

hookFrame == <<changeStream, isRunning, retryCount, mongoReady, streams, feed,
               tasks, timers, waiters, startWaiting, emitted, notified, sent,
               statsCalls, handled, calls, faults, streak, attempt, sockets,
               connectedClients, rooms, statsRequests, received, transporter,
               isConfigured, verifying, mailed, returned, dead, ioClosed,
               ioThrows, commands, micro>>

\* the component mounts: the effect of lines 241-243 runs connect()
HookMount ==
    /\ ~hook.mounted
    /\ hook.mounts < MaxMounts
    /\ hook' = [connect(hook) EXCEPT !.effectSocket = connectReturns(hook),
                                     !.mounted = TRUE, !.mounts = @ + 1]
    /\ UNCHANGED hookFrame

\* a socket's transport opens, at first or after a drop: "connect" is emitted
\* and its listener (lines 47-56) calls startPingInterval(socket)
HookSocketConnects(i) ==
    /\ hook.sockets[i].st = "connecting"
    /\ hook' = LET h1 == [hook EXCEPT !.sockets[i].st = "connected"]
               IN IF hook.sockets[i].listeners
                  THEN startPingInterval(h1, i) ELSE h1
    /\ UNCHANGED hookFrame

\* a connected socket loses its transport: "disconnect" is emitted, its
\* listener (lines 65-74) calls clearPingInterval(), and the socket tries to
\* connect again (reconnection: true, line 37)
HookSocketDrops(i) ==
    /\ hook.sockets[i].st = "connected"
    /\ hook' = LET h1 == IF hook.sockets[i].listeners
                         THEN clearPingInterval(hook) ELSE hook
               IN [h1 EXCEPT !.sockets[i].st = "connecting"]
    /\ UNCHANGED hookFrame

\* reconnect() is called by the component or by the hook's visibility, online
\* and heartbeat handlers (lines 262-327)
HookReconnect ==
    /\ hook.mounted
    /\ hook.reconnects < MaxReconnects
    /\ hook' = reconnect(hook)
    /\ UNCHANGED hookFrame

\* the timeout of reconnect() fires: connect(), lines 207-209
HookReconnectTimeoutFires ==
    /\ hook.reconnectTimeout
    /\ hook' = [connect(hook) EXCEPT !.reconnectTimeout = FALSE]
    /\ UNCHANGED hookFrame

\* the component unmounts: the effect's cleanup runs
HookUnmount ==
    /\ hook.mounted
    /\ hook' = cleanup(hook)
    /\ UNCHANGED hookFrame

\* ------------------------------------------------------------ specifications
Init ==
    /\ changeStream = 0
    /\ isRunning = FALSE
    /\ retryCount = 0
    /\ mongoReady \in BOOLEAN
    /\ streams = << >>
    /\ feed = << >>
    /\ tasks = {}
    /\ timers = << >>
    /\ waiters = << >>
    /\ startWaiting = 0
    /\ emitted = << >>
    /\ notified = << >>
    /\ sent = << >>
    /\ statsCalls = << >>
    /\ handled = << >>
    /\ calls = [start |-> 0, stop |-> 0, other |-> 0]
    /\ faults = 0
    /\ streak = NoStreak
    /\ attempt = [k |-> 0, n |-> 0, at |-> 0, total |-> 0]
    /\ sockets = {}
    /\ connectedClients = {}
    /\ rooms = [c \in ClientIds |-> {}]
    /\ statsRequests = [c \in ClientIds |-> 0]
    /\ received = [c \in ClientIds |-> << >>]
    /\ transporter \in BOOLEAN
    /\ isConfigured = FALSE
    /\ verifying = transporter
    /\ mailed = << >>
    /\ dead = {}
    /\ ioClosed = FALSE
    /\ ioThrows \in BOOLEAN
    /\ commands = 0
    /\ returned = [resolved |-> 0, rejected |-> 0]
    /\ hook = NoHook
    /\ micro = NoMicro

Budget == calls.start + calls.stop + calls.other < MaxCalls

\* the feed and the handling of its changes: the changes the collection can
\* undergo, how many, and how the email sends can settle
Feed(changes, E, F) ==
    \/ \E change \in changes : Mutate(change, E)
    \/ \E s \in 1..Len(streams) : ChangeListener(s)
    \/ \E t \in tasks, ok \in BOOLEAN : StatsReturns(t, ok)
    \/ Microtask(F)

\* the sends that reached the transport settle
Sends(O) == \E t \in tasks, outcome \in O : EmailReturns(t, outcome)

Environment(F, E) ==
    \/ Feed(FeedChanges, E, F)
    \/ \E s \in 1..Len(streams) : FeedError(s, F)
    \/ \E s \in 1..Len(streams) : CloseDone(s)
    \/ \E i \in 1..Len(waiters) : CloseResumes(i)
    \/ \E i \in 1..Len(timers) : RetryTimerFires(i, F)

\* The service under any use of its API.
Next ==
    \/ Budget /\ Start(MaxFaults)
    \/ Budget /\ Stop
    \/ Budget /\ Restart
    \/ Budget /\ ResetRetryCount
    \/ MongoConnected
    \/ \E i \in 1..Len(timers) : RestartTimerFires(i, MaxFaults)
    \/ Environment(MaxFaults, MaxEvents)

\* EMAIL_USER / EMAIL_PASS are not set: the EmailService has no transporter
InitApi == Init /\ ~transporter /\ ~ioThrows

Spec == InitApi /\ [][Next]_vars

\* The service as server.js uses it: in production start() once the
\* database is connected (lines 66-74); at a signal, from its handler (lines
\* 96-129), stop() if there is a service, and then WebSocketService.close().
InitServer == InitApi /\ mongoReady

\* startServer reaches line 74, in production: start() has not been called,
\* and no signal has found the process without a service (it is then in
\* development, where start() is never called)
Boot == calls.start = 0 /\ ~ioClosed

NextServer ==
    \/ Boot /\ Start(MaxServerFaults)
    \/ calls.stop < MaxSignals /\ \E sig \in Signals : Shutdown(sig)
    \/ \E i \in 1..Len(waiters) : ShutdownResumes(i)
    \/ Environment(MaxServerFaults, MaxServerEvents)

SpecServer == InitServer /\ [][NextServer]_vars

\* The service started and watching, fed a sequence of changes.
NextFeed ==
    \/ calls.start = 0 /\ Start(0)
    \/ Feed(FeedChanges, MaxFeedEvents, 0)

SpecFeed == InitServer /\ [][NextFeed]_vars

\* The database is connected; the EmailService may or may not have a
\* transporter to verify.
InitChange == Init /\ mongoReady /\ ~ioThrows

\* The service started and watching, fed any one change, with the email
\* service unconfigured, being verified, or configured.
NextChange ==
    \/ calls.start = 0 /\ Start(0)
    \/ \E ok \in BOOLEAN : VerifyConnection(ok)
    \/ Feed(Changes, MaxChangeEvents, 0)
    \/ Sends(SendOutcomes)
    \/ SendTestEmail
    \/ \E k \in 1..MaxTestEmails, outcome \in SendOutcomes : TestEmailReturns(k, outcome)

SpecChange == InitChange /\ [][NextChange]_vars

\* The same, with what the runtime guarantees to happen: start() runs, the
\* driver hands every delivered change to the listener, and the statistics
\* queries settle.  A send that does not reach the transport returns at once; one
\* that does is outside the process and may never settle.
SpecChangeLive ==
    /\ SpecChange
    /\ WF_vars(calls.start = 0 /\ Start(0))
    /\ WF_vars(\E s \in 1..Len(streams) : ChangeListener(s))
    /\ WF_vars(\E t \in tasks, ok \in BOOLEAN : StatsReturns(t, ok))
    /\ WF_vars(Microtask(0))

\* The clients of the WebSocketService
Clients ==
    \/ \E c \in ClientIds : Connect(c)
    \/ \E c \in ClientIds : Disconnect(c)
    \/ \E c \in ClientIds, orderId \in {0} \cup OrderIds : Subscribe(c, orderId)
    \/ \E c \in ClientIds, orderId \in {0} \cup OrderIds : Unsubscribe(c, orderId)
    \/ \E c \in ClientIds : RequestStats(c)
    \/ \E c \in ClientIds, ok \in BOOLEAN : ClientStatsReturns(c, ok)

\* The service started and watching, with clients coming, subscribing and
\* going while a change is handled.
NextSocket ==
    \/ calls.start = 0 /\ Start(0)
    \/ \E change \in SocketChanges : Mutate(change, MaxSocketEvents)
    \/ \E s \in 1..Len(streams) : ChangeListener(s)
    \/ \E t \in tasks, ok \in BOOLEAN : StatsReturns(t, ok)
    \/ Microtask(0)
    \/ Clients

SpecSocket == InitServer /\ [][NextSocket]_vars

\* The service started and watching, a change announced while clients come,
\* subscribe to order 1, lose their transport and go.
NextFanout ==
    \/ calls.start = 0 /\ Start(0)
    \/ \E change \in SocketChanges : Mutate(change, MaxSocketEvents)
    \/ \E s \in 1..Len(streams) : ChangeListener(s)
    \/ \E t \in tasks, ok \in BOOLEAN : StatsReturns(t, ok)
    \/ \E c \in ClientIds : Connect(c)
    \/ \E c \in ClientIds : Disconnect(c)
    \/ \E c \in ClientIds : Subscribe(c, 1)
    \/ \E c \in ClientIds : TransportFails(c)
    \/ \E c \in ClientIds, ok \in BOOLEAN : ClientStatsReturns(c, ok)
    \/ Microtask(0)

SpecFanout == InitServer /\ [][NextFanout]_vars

\* Clients come and go while the server sends messages to single sockets
\* with sendToClient.
NextDirect ==
    \/ \E c \in ClientIds : Connect(c)
    \/ \E c \in ClientIds : Disconnect(c)
    \/ \E c \in ClientIds, ok \in BOOLEAN : ClientStatsReturns(c, ok)
    \/ \E c \in ClientIds : TransportFails(c)
    \/ \E c \in ClientIds : SendToClient(c)

SpecDirect == InitServer /\ [][NextDirect]_vars

\* The service started and watching, fed any one change, where a call of the
\* WebSocketService made by the handler may throw.
NextBroadcast ==
    \/ calls.start = 0 /\ Start(0)
    \/ Feed(Changes, MaxChangeEvents, 0)
    \/ \E s \in 1..Len(streams), k \in {0, 1} : BroadcastThrows(s, k)

SpecBroadcast == InitServer /\ [][NextBroadcast]_vars

\* stop() has been called and has returned
Stopped ==
    /\ calls.stop > 0
    /\ \A i \in 1..Len(waiters) : waiters[i].kind \notin {"stop", "shutdown"}

\* The service started, and stopped through its API by a caller that leaves
\* the WebSocketService open (as restart() does, lines 275-277), while a
\* change is handled and clients come, subscribe to order 1 and go.
NextStop ==
    \/ calls.start = 0 /\ Start(0)
    \/ calls.start = 1 /\ calls.stop = 0 /\ Stop
    \/ \E s \in 1..Len(streams) : CloseDone(s)
    \/ \E i \in 1..Len(waiters) : CloseResumes(i)
    \/ \E change \in FeedChanges : Mutate(change, MaxSocketEvents)
    \/ \E s \in 1..Len(streams) : ChangeListener(s)
    \/ Microtask(0)
    \/ \E t \in tasks, ok \in BOOLEAN : StatsReturns(t, ok)
    \/ \E c \in ClientIds : Connect(c)
    \/ \E c \in ClientIds : Disconnect(c)
    \/ \E c \in ClientIds : Subscribe(c, 1)
    \/ \E c \in ClientIds, ok \in BOOLEAN : ClientStatsReturns(c, ok)

SpecStop == InitServer /\ [][NextStop]_vars

\* The process of server.js, in production (the service started, its feed
\* failing at most once) or in development (no service), shut down by the
\* handler of a signal (stop() if there is a service, then
\* WebSocketService.close(): lines 96-129), while a change is handled and
\* clients come and go.
NextShutdown ==
    \/ Boot /\ Start(MaxShutdownFaults)
    \/ calls.stop < MaxSignals /\ \E sig \in Signals : Shutdown(sig)
    \/ \E i \in 1..Len(waiters) : ShutdownResumes(i)
    \/ Environment(MaxShutdownFaults, MaxSocketEvents)
    \/ \E c \in ClientIds : Connect(c)
    \/ \E c \in ClientIds : Disconnect(c)
    \/ \E c \in ClientIds, ok \in BOOLEAN : ClientStatsReturns(c, ok)

SpecShutdown == InitServer /\ [][NextShutdown]_vars

\* The service started once and never stopped: its subscriptions fail with an
\* error or end without one.
NextClose ==
    \/ calls.start = 0 /\ Start(MaxFaults)
    \/ Environment(MaxFaults, MaxEvents)
    \/ \E s \in 1..Len(streams) : StreamCloses(s)

SpecClose == InitServer /\ [][NextClose]_vars

\* The service started once, with enough failures to use up its retries, and
\* then stopped, restarted or its counter reset through the API.
NextRetry ==
    \/ calls.start = 0 /\ Start(MaxServerFaults)
    \/ calls.start = 1 /\ calls.stop = 0 /\ Stop
    \/ calls.start = 1 /\ calls.other = 0 /\ Restart
    \/ calls.start = 1 /\ calls.other = 0 /\ ResetRetryCount
    \/ \E i \in 1..Len(timers) : RestartTimerFires(i, MaxServerFaults)
    \/ \E s \in 1..Len(streams) : FeedError(s, MaxServerFaults)
    \/ \E s \in 1..Len(streams) : CloseDone(s)
    \/ \E i \in 1..Len(waiters) : CloseResumes(i)
    \/ \E i \in 1..Len(timers) : RetryTimerFires(i, MaxServerFaults)
    \/ Microtask(MaxServerFaults)

SpecRetry == InitServer /\ [][NextRetry]_vars

\* The same use of the service, with a broadcaster whose emit throws when
\* handleError broadcasts service-error.
InitBroken == Init /\ ~transporter /\ mongoReady /\ ioThrows

SpecBroken == InitBroken /\ [][NextRetry]_vars

\* One useWebSocket hook instance: mounted, its sockets connecting and
\* dropping, reconnect() called while it is mounted, unmounted, mounted again.
NextHook ==
    \/ HookMount
    \/ \E i \in 1..Len(hook.sockets) : HookSocketConnects(i)
    \/ \E i \in 1..Len(hook.sockets) : HookSocketDrops(i)
    \/ HookReconnect
    \/ HookReconnectTimeoutFires
    \/ HookUnmount

SpecHook == InitServer /\ [][NextHook]_vars

\* ------------------------------------------------------------ claims
Range(seq) == {seq[i] : i \in 1..Len(seq)}

Open == {s \in 1..Len(streams) : streams[s].st = "open"}

\* the messages a feed event causes that subscribers take as that event:
\* its primary broadcast, the record-scoped copy and the delivered milestone
EventMessages == {"order-created", "order-updated", "order-deleted",
                  "order-update", "order-delivered"}

\* C1: on every subscription handleChange is invoked exactly once for each
\* change the feed delivered on it, in the order of delivery: the positions it
\* was invoked with are from, from + 1, ..., pos - 1.
C1_HandleInFeedOrder ==
    \A s \in 1..Len(streams) :
        /\ Len(handled[s]) = streams[s].pos - streams[s].from
        /\ \A i \in 1..Len(handled[s]) : handled[s][i] = streams[s].from + i - 1

\* three changes delivered on one subscription and handed to handleChange
C1_Witness ==
    \E s \in 1..Len(streams) : Len(handled[s]) = 3

\* C2: no two feed events of a subscription are in handling at once: when
\* handleChange begins for a change, no earlier handleChange of that
\* subscription is still suspended on an email send or a statistics query.
C2_OneChangeAtATime ==
    \A t, u \in tasks : t.s = u.s => t.n = u.n

\* C3: the messages of a subscription's change N (primary broadcast, scoped
\* copy, order-delivered milestone) are all emitted before any message of a
\* later change of that subscription.
C3_BroadcastsInFeedOrder ==
    \A i, j \in 1..Len(emitted) :
        ( /\ i < j
          /\ emitted[i].event \in EventMessages
          /\ emitted[j].event \in EventMessages
          /\ emitted[i].src[1] = emitted[j].src[1] )
        => emitted[i].src[2] <= emitted[j].src[2]

\* C4: at most one subscription is open with its listeners attached, and no
\* feed position is handed to handleChange twice.
C4_OneActiveStream ==
    /\ Cardinality(Open) <= 1
    /\ \A s, r \in 1..Len(streams) :
          s # r => Range(handled[s]) \cap Range(handled[r]) = {}

\* the service is Watching: running, holding an open subscription
Watching ==
    /\ isRunning
    /\ changeStream # 0
    /\ streams[changeStream].st = "open"

\* C5: start() called while Watching is a no-op: no subscription is opened and
\* isRunning, changeStream and retryCount are unchanged.
C5_StartIdempotent ==
    [][ (Watching /\ calls'.start = calls.start + 1)
        => /\ streams' = streams
           /\ changeStream' = changeStream
           /\ isRunning' = isRunning
           /\ retryCount' = retryCount ]_vars

\* C6: once stop() has been called (and start()/restart() has not been called
\* again) no resubscribe attempt fires, no subscription is opened and
\* isRunning stays false, also when a retry timer was pending at the call.
C6_StopCancelsRetry ==
    [][ calls.stop = 1
        => /\ attempt'.total = attempt.total
           /\ Len(streams') = Len(streams)
           /\ ~isRunning' ]_vars

ServiceErrors == {i \in 1..Len(emitted) : emitted[i].event = "service-error"}

RetryTimers == {i \in 1..Len(timers) : timers[i].kind = "retry"}

\* C7: with maxRetries = 5 no run of consecutive failed resubscribe attempts
\* is longer than 5; service-error is broadcast only with the budget used up,
\* at most once, and exactly once when the fifth attempt has failed; from
\* then on nothing is pending and the service stays stopped.
C7_RetryBudget ==
    /\ attempt.n <= maxRetries
    /\ streak.fired <= maxRetries
    /\ Cardinality(ServiceErrors) <= 1
    /\ retryCount < maxRetries => ServiceErrors = {}
    /\ (streak.fired = maxRetries /\ waiters = << >>) => Cardinality(ServiceErrors) = 1
    /\ ServiceErrors # {} =>
          /\ ~isRunning
          /\ changeStream = 0
          /\ Open = {}
          /\ timers = << >>

\* five consecutive resubscribe attempts failed and service-error was broadcast
C7_Witness ==
    /\ streak.fired = maxRetries
    /\ attempt.n = maxRetries
    /\ ServiceErrors # {}

\* the delays of the spec's default policy, in milliseconds
BackoffTable == <<5000, 10000, 20000, 40000, 80000>>

\* C8: the k-th consecutive resubscribe attempt (k = 1..5) is made by the timer
\* scheduled k-th, whose delay is retryDelay * 2^(k-1): 5 s, 10 s, 20 s, 40 s,
\* 80 s; the fifth attempt fires no earlier than 75 s after the first failure.
C8_BackoffDelays ==
    /\ \A i \in RetryTimers :
          /\ timers[i].k \in 1..maxRetries
          /\ timers[i].delay = retryDelay * 2 ^ (timers[i].k - 1)
          /\ timers[i].delay = BackoffTable[timers[i].k]
    /\ attempt.k = attempt.n
    /\ attempt.n = 5 => attempt.at >= 75000

\* the fifth consecutive attempt has fired
C8_Witness ==
    /\ attempt.n = 5
    /\ attempt.k = 5

\* C9: a successful (re)subscription leaves retryCount at 0: while no retry
\* has been scheduled since the last successful open retryCount is 0, the
\* first retry after it waits retryDelay, and service-error needs
\* maxRetries retries scheduled since it.
C9_ResetOnOpen ==
    /\ streak.k = 0 => retryCount = 0
    /\ \A i \in RetryTimers : timers[i].k = 1 => timers[i].delay = retryDelay
    /\ retryCount = streak.k
    /\ ServiceErrors # {} => streak.k = maxRetries

\* a resubscribe attempt succeeded after a failure
C9_Witness ==
    /\ attempt.total >= 1
    /\ faults >= 1
    /\ Watching
    /\ streak.k = 0

\* the changes handled so far that are deletes without a prior snapshot
Handled ==
    UNION { {<<s, n>> : n \in Range(handled[s])} : s \in 1..Len(streams) }

BareDeletes ==
    {src \in Handled :
        /\ feed[src[2]].operationType = "delete"
        /\ ~feed[src[2]].fullDocumentBeforeChange.present}

\* C10: a Delete without a prior snapshot produces exactly one order-deleted
\* broadcast-to-all; its data is a stub with the deleted record's id and status
\* "deleted"; no notification is sent for it.
C10_DeleteWithoutSnapshot ==
    \A src \in BareDeletes :
        /\ Cardinality({i \in 1..Len(emitted) :
               /\ emitted[i].event = "order-deleted"
               /\ emitted[i].room = 0
               /\ emitted[i].src = src}) = 1
        /\ \A i \in 1..Len(emitted) :
              (emitted[i].event = "order-deleted" /\ emitted[i].src = src)
              => /\ emitted[i].data.id = feed[src[2]].documentKey
                 /\ emitted[i].data.status = "deleted"
        /\ \A i \in 1..Len(notified) : notified[i].src # src

\* a Delete without a prior snapshot was handled to the end
C10_Witness ==
    /\ BareDeletes # {}
    /\ tasks = {}
    /\ \E i \in 1..Len(emitted) : emitted[i].event = "order-stats"

\* the changes of the given operation types handed to handleChange so far
HandledOf(ops) == {src \in Handled : feed[src[2]].operationType \in ops}

\* the EmailService calls made for a change
NotifiedFor(src) == {i \in 1..Len(notified) : notified[i].src = src}

\* the broadcast-to-all messages of one event name emitted for a change
BroadcastsFor(src, event) ==
    {i \in 1..Len(emitted) :
        emitted[i].src = src /\ emitted[i].event = event /\ emitted[i].room = 0}

\* the change carries both records and their statuses differ
StatusDiffers(change) ==
    /\ change.fullDocument.present
    /\ change.fullDocumentBeforeChange.present
    /\ change.fullDocumentBeforeChange.status # change.fullDocument.status

\* C11: an Update or Replace triggers a status-change notification exactly
\* when the previous and the current record differ in status and the current
\* record has an email address: then one sendStatusChangeEmail call with the
\* current record, the old and the new status, otherwise no EmailService call.
C11_StatusChangeNotification ==
    \A src \in HandledOf({"update", "replace"}) :
        LET change == feed[src[2]]
        IN IF StatusDiffers(change) /\ change.fullDocument.email
           THEN /\ Cardinality(NotifiedFor(src)) = 1
                /\ \A i \in NotifiedFor(src) :
                      /\ notified[i].kind = "status-change"
                      /\ notified[i].order = change.fullDocument
                      /\ notified[i].oldStatus = change.fullDocumentBeforeChange.status
                      /\ notified[i].newStatus = change.fullDocument.status
           ELSE NotifiedFor(src) = {}

\* an update that changed the status of a record with an address was handled
\* and notified
C11_Witness ==
    \E src \in HandledOf({"update"}) :
        /\ StatusDiffers(feed[src[2]])
        /\ feed[src[2]].fullDocument.email
        /\ NotifiedFor(src) # {}

\* C13: an Insert carrying its record produces exactly one order-created
\* broadcast-to-all whose data is that record, and one sendOrderCreatedEmail
\* call if the record has an email address, none otherwise.
C13_InsertBroadcastAndNotification ==
    \A src \in HandledOf({"insert"}) :
        LET document == feed[src[2]].fullDocument
        IN document.present =>
             /\ Cardinality(BroadcastsFor(src, "order-created")) = 1
             /\ \A i \in BroadcastsFor(src, "order-created") :
                   emitted[i].data = document
             /\ Cardinality(NotifiedFor(src)) = (IF document.email THEN 1 ELSE 0)
             /\ \A i \in NotifiedFor(src) :
                   notified[i].kind = "created" /\ notified[i].order = document

\* an insert of a record without an address was handled to the end
C13_Witness ==
    \E src \in HandledOf({"insert"}) :
        /\ feed[src[2]].fullDocument.present
        /\ ~feed[src[2]].fullDocument.email
        /\ BroadcastsFor(src, "order-created") # {}
        /\ tasks = {}

\* C14: a Delete with a prior snapshot produces one order-deleted
\* broadcast-to-all whose data is the snapshot, and one sendOrderCancelledEmail
\* call if the snapshot has an email address, none otherwise.
C14_DeleteWithSnapshot ==
    \A src \in HandledOf({"delete"}) :
        LET previousDocument == feed[src[2]].fullDocumentBeforeChange
        IN previousDocument.present =>
             /\ Cardinality(BroadcastsFor(src, "order-deleted")) = 1
             /\ \A i \in BroadcastsFor(src, "order-deleted") :
                   emitted[i].data = previousDocument
             /\ Cardinality(NotifiedFor(src)) =
                   (IF previousDocument.email THEN 1 ELSE 0)
             /\ \A i \in NotifiedFor(src) :
                   /\ notified[i].kind = "cancelled"
                   /\ notified[i].order = previousDocument

\* a delete whose snapshot has no address was handled to the end
C14_Witness ==
    \E src \in HandledOf({"delete"}) :
        /\ feed[src[2]].fullDocumentBeforeChange.present
        /\ ~feed[src[2]].fullDocumentBeforeChange.email
        /\ BroadcastsFor(src, "order-deleted") # {}
        /\ tasks = {}

\* the updates handed to handleChange that changed the status to "delivered"
DeliveredUpdates ==
    {src \in HandledOf({"update"}) :
        /\ StatusDiffers(feed[src[2]])
        /\ feed[src[2]].fullDocument.status = "delivered"}

\* C12: every Update that changes the status to "delivered" leads to both an
\* order-updated and an order-delivered broadcast-to-all, with or without an
\* email address and however the email send goes, also when it never settles.
C12_DeliveredMilestone ==
    (DeliveredUpdates # {}) ~>
        (\A src \in DeliveredUpdates :
            /\ BroadcastsFor(src, "order-updated") # {}
            /\ BroadcastsFor(src, "order-delivered") # {})

\* the handlers' EmailService calls that have settled with a failure
FailedSends ==
    {i \in 1..Len(sent) :
        sent[i].src[1] # 0 /\ sent[i].outcome \in {"failed", "threw"}}

\* the changes whose handleChange is about to resume: a promise job of the
\* current turn leads to it
Resuming ==
    {<<micro.queue[j].s, micro.queue[j].n>> :
        j \in {k \in 1..Len(micro.queue) : micro.queue[k].kind = "change"}}

\* C18: a failed email send (sendEmail returning { success: false } or the call
\* rejecting) stays inside the handler: the service keeps watching with
\* retryCount 0 and no retry timer, handleChange goes on to broadcastStats()
\* for that change (in the same turn of the event loop), and an update to
\* "delivered" still gets its milestone.
C18_SendFailureContained ==
    \A i \in FailedSends :
        /\ isRunning
        /\ changeStream # 0
        /\ retryCount = 0
        /\ timers = << >>
        /\ sent[i].src \in Range(statsCalls) \cup Resuming
        /\ sent[i].src \in DeliveredUpdates
              => BroadcastsFor(sent[i].src, "order-delivered") # {}

\* a send rejected, and the statistics of that change were broadcast
C18_Witness ==
    \E i \in 1..Len(sent) :
        /\ sent[i].outcome = "threw"
        /\ \E j \in 1..Len(emitted) :
              emitted[j].event = "order-stats" /\ emitted[j].src = sent[i].src

\* the changes whose EmailService call has settled
Settled == {sent[i].src : i \in 1..Len(sent)}

\* C19: handling does not wait for the email send: once the send of a change
\* is dispatched, broadcastStats() has been called for the change and an
\* update to "delivered" has its order-delivered milestone, whether or not
\* the send has settled.
C19_FireAndForget ==
    \A src \in Handled :
        (NotifiedFor(src) # {} /\ src \notin Settled) =>
            /\ src \in Range(statsCalls)
            /\ src \in DeliveredUpdates => BroadcastsFor(src, "order-delivered") # {}

\* the primary broadcast a change calls for ("" if none)
PrimaryEvent(change) ==
    CASE change.operationType = "insert" /\ change.fullDocument.present
             -> "order-created"
      [] change.operationType \in {"update", "replace"} /\ change.fullDocument.present
             -> "order-updated"
      [] change.operationType = "delete" -> "order-deleted"
      [] OTHER -> ""

\* C20: an outstanding email send or statistics query of change N does not
\* hold back change N+1: a delivered change can be taken by the listener
\* whenever the event loop can run it, and every change taken has its primary
\* broadcast emitted.
C20_NextEventNotBlocked ==
    /\ \A s \in Open :
          (streams[s].pos <= Len(feed) /\ FeedRun(s)) => ENABLED ChangeListener(s)
    /\ \A src \in Handled :
          PrimaryEvent(feed[src[2]]) # ""
             => BroadcastsFor(src, PrimaryEvent(feed[src[2]])) # {}

\* a change was taken and broadcast while an earlier change of the stream was
\* still suspended
C20_Witness ==
    \E t \in tasks, src \in Handled :
        /\ src[1] = t.s
        /\ src[2] > t.n
        /\ BroadcastsFor(src, PrimaryEvent(feed[src[2]])) # {}

\* the broadcast-to-all messages that announce a change of a record
PrimaryEvents == {"order-created", "order-updated", "order-deleted"}

\* the messages a step added to a socket's inbox
NewlyReceived(c) == SubSeq(received'[c], Len(received[c]) + 1, Len(received'[c]))

\* C15: when a change about record X is announced, every connected socket gets
\* the broadcast-to-all message once; a socket subscribed to X gets the
\* X-scoped order-update copy as well, a socket not subscribed to X gets no
\* copy; sockets that are not connected get nothing.
C15_ScopedDelivery ==
    [][ \A k \in (Len(emitted) + 1)..Len(emitted') :
          emitted'[k].event \in PrimaryEvents =>
            LET m == emitted'[k]
                X == feed[m.src[2]].documentKey
            IN \A c \in ClientIds :
                 LET new == NewlyReceived(c)
                     alls == {j \in 1..Len(new) : new[j] = m}
                     copies == {j \in 1..Len(new) :
                                   /\ new[j].event = "order-update"
                                   /\ new[j].src = m.src
                                   /\ new[j].type = m.event
                                   /\ new[j].data = m.data}
                 IN /\ Cardinality(alls) = (IF c \in sockets THEN 1 ELSE 0)
                    /\ Cardinality(copies) =
                          (IF c \in sockets /\ X \in rooms[c] THEN 1 ELSE 0)
      ]_vars

\* the inbox positions of socket c that hold a message of the change src
ReceivedOf(c, src, event) ==
    {i \in 1..Len(received[c]) :
        received[c][i].event = event /\ received[c][i].src = src}

\* one change reached a socket subscribed to its record with the scoped copy
\* and another connected socket, subscribed to a different record, without it
C15_Witness ==
    \E c, d \in sockets, src \in Handled :
        /\ c # d
        /\ ReceivedOf(c, src, "order-update") # {}
        /\ ReceivedOf(d, src, "order-update") = {}
        /\ \E event \in PrimaryEvents :
              ReceivedOf(c, src, event) # {} /\ ReceivedOf(d, src, event) # {}
        /\ feed[src[2]].documentKey \in rooms[c]
        /\ rooms[d] = OrderIds \ {feed[src[2]].documentKey}

\* the acknowledgements socket c got for commands about an order
AcksOf(c, orderId) ==
    {i \in 1..Len(received[c]) :
        /\ received[c][i].event = "subscription-ack"
        /\ received[c][i].orderId = orderId}

\* the latest command of socket c about the order was a subscribe
LastSubscribed(c, orderId) ==
    \E i \in AcksOf(c, orderId) :
        /\ received[c][i].subscribed
        /\ \A j \in AcksOf(c, orderId) : j <= i

\* C16: a connected socket is subscribed to an order exactly if its latest
\* command about the order was a subscribe: a repeated subscribe leaves the
\* set as the first did, an unsubscribe of an order not subscribed to leaves
\* it unchanged.
C16_SubscriptionIdempotent ==
    \A c \in sockets, orderId \in OrderIds :
        orderId \in rooms[c] <=> LastSubscribed(c, orderId)

\* a socket subscribed to the same order twice
C16_Witness ==
    \E c \in sockets, orderId \in OrderIds :
        /\ orderId \in rooms[c]
        /\ \E i, j \in AcksOf(c, orderId) :
              i < j /\ received[c][i].subscribed /\ received[c][j].subscribed

\* C17: total_connections equals the number of sockets that have connected
\* and have not disconnected, in every state that connects, disconnects and
\* broadcasts can lead to.
C17_RegistryCount ==
    /\ total_connections = Cardinality(sockets)
    /\ connectedClients = sockets

\* two sockets connected, one of them left, and a change was broadcast
C17_Witness ==
    /\ Cardinality(sockets) = 1
    /\ \E c \in ClientIds : c \notin sockets /\ received[c] # << >>
    /\ \E i \in 1..Len(emitted) : emitted[i].event \in PrimaryEvents
    /\ total_connections = 1

\* C21: an unconfigured EmailService never uses the transport: a step taken
\* while isConfigured is false makes no transporter.sendMail call, and every
\* send that did not reach the transport settles with the "not configured"
\* result, never by throwing.
C21_UnconfiguredNoOp ==
    [][ /\ ~isConfigured => mailed' = mailed
        /\ \A i \in 1..Len(sent') :
              sent'[i].src \notin {mailed'[j].src : j \in 1..Len(mailed')}
                 => sent'[i].outcome = "not configured" ]_vars

\* a notification was requested of the unconfigured service and came back
\* "not configured" with the transport untouched
C21_Witness ==
    /\ ~isConfigured
    /\ mailed = << >>
    /\ \E i \in 1..Len(sent) :
          /\ sent[i].outcome = "not configured"
          /\ NotifiedFor(sent[i].src) # {}

\* how often broadcastStats() was called for a change
StatsCallsFor(src) == {i \in 1..Len(statsCalls) : statsCalls[i] = src}

\* the changes whose handleChange is suspended on an email send
AwaitingSend == {<<t.s, t.n>> : t \in {u \in tasks : u.at = "email"}}

\* C22: for every change handed to handleChange, whatever its operation type
\* and its records, broadcastStats() is called exactly once as soon as its
\* handler is through (never more than once before).
C22_StatsOncePerEvent ==
    \A src \in Handled :
        Cardinality(StatsCallsFor(src)) = (IF src \in AwaitingSend THEN 0 ELSE 1)

\* C28: a Replace is handled as the Update with the same current and previous
\* record is: same messages, same EmailService call, same continuation
\* (statistics or not), also when the current record is missing.
C28_ReplaceAsUpdate ==
    \A src \in HandledOf({"replace"}) :
        handleChange(feed[src[2]], src)
            = handleChange([feed[src[2]] EXCEPT !.operationType = "update"], src)

\* the operation types handleChange has a case for
KnownOperations == {"insert", "update", "delete", "replace"}

\* the changes of an unexpected operation type handed to handleChange so far
Skipped == {src \in Handled : feed[src[2]].operationType \notin KnownOperations}

\* C25: a change of an unexpected operation type is skipped: the step that
\* hands it to handleChange emits none of the order-created / order-updated /
\* order-deleted / order-update / order-delivered messages and calls no
\* EmailService method, leaves changeStream, isRunning, retryCount, the timers
\* and the subscription as they are, and every change taken after it still
\* has its primary broadcast.
C25_UnknownOperationSkipped ==
    [][ /\ \A s \in 1..Len(streams) :
              ( /\ Len(handled') = Len(handled)
                /\ handled'[s] # handled[s]
                /\ feed[streams[s].pos].operationType \notin KnownOperations )
              => /\ \A i \in (Len(emitted) + 1)..Len(emitted') :
                       emitted'[i].event \notin EventMessages
                 /\ notified' = notified
                 /\ UNCHANGED <<changeStream, isRunning, retryCount, timers>>
                 /\ streams'[s].st = streams[s].st
        /\ \A src \in Skipped' :
              /\ \A i \in 1..Len(emitted') :
                    emitted'[i].src = src => emitted'[i].event \notin EventMessages
              /\ \A i \in 1..Len(notified') : notified'[i].src # src
              /\ \A later \in Handled' :
                    ( /\ later[1] = src[1]
                      /\ later[2] > src[2]
                      /\ PrimaryEvent(feed'[later[2]]) # "" )
                    => BroadcastsFor(later, PrimaryEvent(feed[later[2]]))' # {} ]_vars

\* a change of an unexpected type was skipped while the service was Watching,
\* and a later change of the subscription was broadcast
C25_Witness ==
    \E src \in Skipped, later \in Handled :
        /\ later[1] = src[1]
        /\ later[2] > src[2]
        /\ PrimaryEvent(feed[later[2]]) # ""
        /\ BroadcastsFor(later, PrimaryEvent(feed[later[2]])) # {}
        /\ Watching

\* the client-count-update messages among emitted[from..]
CountUpdates(msgs, from) ==
    {i \in from..Len(msgs) : msgs[i].event = "client-count-update"}

\* C29: a step that registers or unregisters a connection emits exactly one
\* client-count-update, to all, whose connected_clients is the size of the
\* registry after the step; no other step emits a client-count-update.
C29_ClientCountBroadcast ==
    [][ IF connectedClients' # connectedClients
        THEN /\ Len(emitted') = Len(emitted) + 1
             /\ emitted'[Len(emitted')].event = "client-count-update"
             /\ emitted'[Len(emitted')].room = 0
             /\ emitted'[Len(emitted')].connected_clients
                   = Cardinality(connectedClients')
        ELSE CountUpdates(emitted', Len(emitted) + 1) = {} ]_vars

\* a connection registered while another was connected and a connection
\* unregistered, each with its count broadcast
C29_Witness ==
    \E i, j \in CountUpdates(emitted, 1) :
        /\ i < j
        /\ emitted[i].connected_clients = 2
        /\ emitted[j].connected_clients = 1
        /\ Cardinality(connectedClients) = 1

\* the step runs the first promise job, and it is of the given kind
Runs(kind) ==
    /\ micro.queue # << >>
    /\ Head(micro.queue).kind = kind
    /\ micro'.queue # micro.queue
    /\ Len(micro'.queue) <= Len(micro.queue)

\* C30: while the database is not connected no subscription is opened and the
\* service does not become running: a start() called then suspends (it is
\* counted among the waiting calls and changes nothing else), the waiting
\* calls resume only when "connected" is observed, and a call that resumes
\* finds the database connected and opens the subscription, or takes the
\* failure of the open.
C30_StartWaitsForStore ==
    [][ /\ ~mongoReady =>
              /\ streams' = streams
              /\ ~isRunning'
              /\ changeStream' = 0
        /\ (~mongoReady /\ calls'.start # calls.start) =>
              /\ startWaiting' = startWaiting + 1
              /\ UNCHANGED <<retryCount, timers, emitted, micro>>
        /\ startWaiting' < startWaiting =>
              /\ ~mongoReady /\ mongoReady'
              /\ startWaiting' = 0
              /\ Len(micro'.queue) = Len(micro.queue) + startWaiting
        /\ Runs("resume") =>
              /\ mongoReady
              /\ \/ Len(streams') = Len(streams) + 1
                 \/ faults' = faults + 1 ]_vars

\* start() was called before the database was connected and is suspended
C30_Witness ==
    /\ ~mongoReady
    /\ calls.start = 1
    /\ startWaiting = 1
    /\ streams = << >>
    /\ ~isRunning

\* C26: handleError has dropped the subscription when it decides on a retry:
\* the step that schedules a retry or emits service-error leaves changeStream
\* null, isRunning false and no subscription open; it does exactly one of the
\* two, service-error only with the retries used up; and a resubscribe attempt
\* starts from changeStream null, isRunning false and no subscription open.
C26_CloseBeforeRetry ==
    [][ LET scheduled == streak'.k = streak.k + 1
            degraded == Cardinality(ServiceErrors') > Cardinality(ServiceErrors)
            fired == IF attempt'.total # attempt.total THEN 1 ELSE 0
        IN /\ (scheduled \/ degraded) =>
                 /\ changeStream' = 0
                 /\ ~isRunning'
                 /\ Open' = {}
                 /\ ~(scheduled /\ degraded)
           /\ scheduled =>
                 /\ Cardinality(RetryTimers') = Cardinality(RetryTimers) - fired + 1
                 /\ retryCount < maxRetries
           /\ degraded =>
                 /\ Cardinality(ServiceErrors') = Cardinality(ServiceErrors) + 1
                 /\ Cardinality(RetryTimers') = Cardinality(RetryTimers) - fired
                 /\ retryCount = maxRetries
           /\ fired = 1 =>
                 /\ changeStream = 0
                 /\ ~isRunning
                 /\ Open = {} ]_vars

\* a subscription that was opened failed with a feed-level error, was closed,
\* and a retry is scheduled with the subscription dropped
C26_Witness ==
    /\ calls.stop = 0
    /\ \E s \in 1..Len(streams) : streams[s].st = "closed"
    /\ RetryTimers # {}
    /\ changeStream = 0
    /\ ~isRunning

\* C27 as claimed: as long as no subscription has delivered an event (every
\* one failed while it was being opened or after it was opened), no more than
\* maxRetries resubscribe attempts are made.
C27_RetriesCapped ==
    (feed = << >> /\ calls.stop = 0) => attempt.total <= maxRetries

\* C27, amended: as long as no subscription could be opened at all, no more
\* than maxRetries resubscribe attempts are made, and when the last of them
\* has failed service-error has been broadcast; a seventh attempt overall
\* needs a subscription that opened in between (line 63 resets the counter).
C27_RetriesCappedWhileOpening ==
    /\ streams = << >> => attempt.total <= maxRetries
    /\ (streams = << >> /\ attempt.total = maxRetries) => ServiceErrors # {}
    /\ ServiceErrors # {} => attempt.n = maxRetries

\* start() and five resubscribe attempts failed to open a subscription
C27_Witness ==
    /\ streams = << >>
    /\ calls.stop = 0
    /\ attempt.total = maxRetries
    /\ Cardinality(ServiceErrors) = 1

\* the changes whose primary broadcast was cut short by an error: a record to
\* announce, and no record-scoped copy emitted
BroadcastThrew ==
    {src \in Handled :
        /\ PrimaryEvent(feed[src[2]]) # ""
        /\ \A i \in 1..Len(emitted) :
              emitted[i].src = src => emitted[i].event # "order-update"}

\* C23: when a WebSocketService call made for a change throws, the rest of
\* the handling still happens: the EmailService call the change calls for is
\* made and broadcastStats() is called (at once, or when the send has
\* settled); the service stays Watching with retryCount 0 and no timer.
C23_BroadcastErrorContained ==
    \A src \in BroadcastThrew :
        /\ handleChange(feed[src[2]], src).mail # << >> => NotifiedFor(src) # {}
        /\ src \in AwaitingSend \/ StatsCallsFor(src) # {}
        /\ Watching
        /\ retryCount = 0
        /\ timers = << >>

\* C24: in every step that emits messages, every socket that is registered
\* and whose transport works gets each message emitted to all and each message
\* emitted to a room it joined, whatever happened to the other sockets (failed
\* transport, disconnected in this step or before); a socket whose transport
\* failed gets none of them.
C24_BestEffortFanout ==
    [][ \A c \in sockets \cap sockets' :
          LET new == SubSeq(emitted', Len(emitted) + 1, Len(emitted'))
              Due(m) == m.room = 0 \/ m.room \in rooms[c]
              Broadcast(m) == m.room >= 0
          IN SelectSeq(NewlyReceived(c), Broadcast)
                = IF c \in dead THEN << >> ELSE SelectSeq(new, Due) ]_vars

\* two sockets were registered when a change was announced; the transport of
\* one had failed, and the other got the announcement
C24_Witness ==
    \E c \in sockets \ dead, d \in dead :
        /\ \E i, j \in 1..Len(received[c]) :
              /\ i < j
              /\ received[c][i].event = "client-count-update"
              /\ received[c][i].connected_clients = 2
              /\ received[c][j].event \in PrimaryEvents
        /\ \A i \in 1..Len(received[d]) : received[d][i].event \notin PrimaryEvents

\* C31: the steps of stop() (the call up to its awaited close, and its
\* resumption) leave the sockets, the registry and the rooms as they are, and
\* every message emitted to all once stop() was called is received by every
\* registered socket.
C31_StopLeavesBroadcaster ==
    [][ /\ (calls'.stop # calls.stop \/ Stopped' # Stopped)
              => UNCHANGED <<sockets, connectedClients, rooms>>
        /\ calls.stop > 0 =>
              \A c \in sockets \cap sockets' :
                 LET new == SubSeq(emitted', Len(emitted) + 1, Len(emitted'))
                     ToAll(m) == m.room = 0
                 IN SelectSeq(NewlyReceived(c), ToAll) = SelectSeq(new, ToAll) ]_vars

\* stop() has returned with two sockets registered, one of them subscribed,
\* and the statistics of a change were broadcast to them
C31_Witness ==
    /\ Stopped
    /\ changeStream = 0
    /\ Cardinality(connectedClients) = 2
    /\ \E c \in sockets : rooms[c] # {}
    /\ statsCalls # << >>
    /\ \A c \in sockets :
          \E i \in 1..Len(received[c]) : received[c][i].event = "order-stats"
                                            /\ received[c][i].room = 0

\* C32: at no time is more than one retry timer pending.
C32_OneRetryTimer == Cardinality(RetryTimers) <= 1

\* handleError is suspended on the close() of the subscription it drops
Recovering == \E i \in 1..Len(waiters) : waiters[i].kind = "handleError"

\* C33: a service that was started and not stopped is never left not running
\* with nothing under way that leads to a resubscribe attempt or to
\* service-error: it is running, or the subscription that failed is about to
\* be handled (its close is completing, or handleError waits for it), or a
\* retry timer is pending, or service-error has been broadcast.
C33_NeverSilentlyStopped ==
    (calls.start > 0 /\ calls.stop = 0 /\ ~isRunning) =>
        \/ Recovering
        \/ RetryTimers # {}
        \/ ServiceErrors # {}

\* C34: once stop() has returned, no step emits a message that announces a
\* change (order-created / order-updated / order-deleted, the record-scoped
\* copy, order-delivered) or the statistics of a change.
C34_NoFeedBroadcastAfterStop ==
    [][ Stopped =>
          \A i \in (Len(emitted) + 1)..Len(emitted') :
             emitted'[i].event \notin EventMessages \cup {"order-stats"} ]_vars

\* C35: whenever isRunning is true, the service holds a subscription
\* (changeStream is not null, has_change_stream) and that subscription has
\* not been closed.
C35_RunningHoldsOpenStream ==
    isRunning => (changeStream # 0 /\ streams[changeStream].st # "closed")

\* C36: retryCount stays within 0..maxRetries; a step changes it only by +1,
\* from below maxRetries and together with a new retry timer (handleError), or
\* to 0, when a subscription is opened or by resetRetryCount(); the steps of
\* stop() and restart() up to the new start() leave it unchanged.
C36_RetryCountRange ==
    [][ /\ retryCount' \in 0..maxRetries
        /\ retryCount' # retryCount =>
              \/ /\ retryCount' = retryCount + 1
                 /\ retryCount < maxRetries
                 /\ streak'.k = streak.k + 1
              \/ /\ retryCount' = 0
                 /\ \/ Len(streams') = Len(streams) + 1
                    \/ /\ calls'.other = calls.other + 1
                       /\ UNCHANGED <<timers, waiters, isRunning>>
        /\ calls'.stop # calls.stop => retryCount' = retryCount
        /\ (Len(waiters') < Len(waiters) /\ streak' = streak /\ emitted' = emitted)
              => retryCount' = retryCount ]_vars

\* the counter was raised to maxRetries by handleError, service-error was
\* broadcast, and the counter was reset by resetRetryCount(); stop() was called
C36_Witness ==
    /\ retryCount = 0
    /\ ServiceErrors # {}
    /\ calls.other > 0
    /\ calls.stop > 0

\* the pending timers of restart()'s one-second wait
RestartTimers == {i \in 1..Len(timers) : timers[i].kind = "restart"}

\* the start() calls suspended in the handleError of their catch
StartsClosing ==
    Cardinality({i \in 1..Len(waiters) : /\ waiters[i].kind = "handleError"
                                          /\ waiters[i].by = "start"})

\* C37: no start() promise is ever rejected.  A start() whose open fails
\* resumes in its catch and ends in handleError: it resolves, at once or after
\* the awaited close(), with isRunning false and a retry scheduled or
\* service-error broadcast; a start() whose open succeeds resolves with
\* isRunning true.
C37_StartNeverRejects ==
    [][ LET scheduled == streak'.k = streak.k + 1
            degraded == Cardinality(ServiceErrors') > Cardinality(ServiceErrors)
            resolved == returned'.resolved = returned.resolved + 1
            tried == Len(streams') > Len(streams) \/ faults' = faults + 1
        IN /\ returned'.rejected = 0
           /\ (calls'.start # calls.start /\ tried) =>
                 /\ Len(micro'.queue) = Len(micro.queue) + 1
                 /\ micro'.queue[Len(micro'.queue)].kind =
                       IF faults' = faults + 1 THEN "failed" ELSE "opened"
           /\ Runs("failed") =>
                 \/ resolved /\ ~isRunning' /\ (scheduled \/ degraded)
                 \/ /\ StartsClosing' = StartsClosing + 1
                    /\ Len(waiters') = Len(waiters) + 1
           /\ StartsClosing' < StartsClosing =>
                 resolved /\ ~isRunning' /\ (scheduled \/ degraded)
           /\ Runs("opened") => resolved /\ isRunning'
      ]_vars

\* the updates handled so far that carry the current record and no previous
\* snapshot
BareUpdates ==
    {src \in HandledOf({"update"}) :
        /\ feed[src[2]].fullDocument.present
        /\ ~feed[src[2]].fullDocumentBeforeChange.present}

\* C38: an Update with its current record and without a previous snapshot is
\* broadcast once as order-updated with previous_data null, and causes no
\* EmailService call and no order-delivered message, whatever the status of
\* the current record.
C38_UpdateWithoutSnapshot ==
    \A src \in BareUpdates :
        /\ Cardinality(BroadcastsFor(src, "order-updated")) = 1
        /\ \A i \in BroadcastsFor(src, "order-updated") :
              /\ emitted[i].previous_data = NoDoc
              /\ emitted[i].data = feed[src[2]].fullDocument
        /\ NotifiedFor(src) = {}
        /\ \A i \in 1..Len(emitted) :
              emitted[i].src = src => emitted[i].event # "order-delivered"

\* an update to delivered of a record with an email address, without a
\* previous snapshot, was handled to the end
C38_Witness ==
    \E src \in BareUpdates :
        /\ feed[src[2]].fullDocument.status = "delivered"
        /\ feed[src[2]].fullDocument.email
        /\ StatsCallsFor(src) # {}
        /\ tasks = {}

\* the hook is unmounted after having been mounted
Unmounted == ~hook.mounted /\ hook.mounts > 0

\* C39: after the useWebSocket hook has unmounted, no socket the hook
\* created, by its initial connect or by a later reconnect(), is connected,
\* and no ping interval and no reconnect timeout of the hook is pending.
C39_HookCleanup ==
    Unmounted =>
        /\ \A i \in 1..Len(hook.sockets) : hook.sockets[i].st # "connected"
        /\ hook.pingIntervalRef = 0
        /\ ~hook.reconnectTimeout

====
